---- MODULE Spec2Model ----
(***************************************************************************)
(* A model of pylighter's grid bot (src/grid_strategy.py, class            *)
(* SimplifiedGridBot) and of the SDK's order tracking                      *)
(* (src/pylighter/order_manager.py).                                       *)
(*                                                                         *)
(* Units.  Prices are integers counted in half price ticks (one tick is    *)
(* 10^-price_precision quote units), because the mid price                 *)
(* (bid + ask) / 2 of two tick-aligned prices is a multiple of half a      *)
(* tick.  Quantities are integers counted in lot steps                     *)
(* (step_size = 10^-amount_precision).  A price that has not been rounded  *)
(* yet is kept exact, as a numerator over GridDen half ticks.  Time is in  *)
(* seconds.                                                                *)
(*                                                                         *)
(* Scheduling.  The bot runs on one asyncio event loop: code between two   *)
(* awaits of real I/O runs without interruption.  pc is the control        *)
(* task's position; the price-feed callback and the account-orders         *)
(* handler run only while the control task is suspended (Yielded).         *)
(*                                                                         *)
(* Left out: the display counters buy_long_orders .. buy_short_orders      *)
(* (written, never read by a decision), and monitor_websocket_health,      *)
(* which acts only after five health checks a minute apart.                *)
(***************************************************************************)
EXTENDS Integers, Sequences, FiniteSets, TLC

\* ------------------------------------------------------------------ bounds
\* Ids the bot's own placements may consume (order ids are never reused).
MaxOwnId == 2
\* How often the clock advances, and by how many seconds each time.  It advances
\* while the control task sleeps; a gateway call takes no time on this scale.
MaxTicks == 2
TickSeconds == 151
\* Positions are capped: a step that would exceed the cap is not taken.
MaxPosition == 2
\* How many messages the account stream delivers.
MaxDeliveries == 2
\* The highest price calculate_order_quantity is tried with, in eighths of a
\* quote unit.
MaxQtyPrice == 128
\* The most orders of this account the exchange lists in one reply.
MaxListed == 9
\* The most sessions of the account stream that are started, and the most
\* messages one session handles.
MaxSessions == 6
MaxMessages == 3

\* The most connection attempts of the price feed that fail in a row.
MaxFeedFailures == 11

\* MarketDataManager.validate_order_amount is called with prices from 0 to
\* MaxMdmPrice tenths of a quote unit and with quantities up to
\* MaxMdmQuantity hundredths of a base unit, of either sign.
MaxMdmPrice == 45
MaxMdmQuantity == 12

\* The arbitrage bot places at most MaxArbId orders, and its clock advances at
\* most MaxArbTicks times.
MaxArbId == 12
MaxArbTicks == 5

\* ------------------------------------------------------- program constants
\* GRID_SPACING = 0.0003 = GridNum / GridDen
GridNum == 3
GridDen == 10000
\* DEFAULT_ORDER_AMOUNT and min_quote_amount, in quote units (USD)
order_amount == 10
min_quote_amount == 10
\* the instrument's precisions as fetched by fetch_market_constraints
price_precision == 2
amount_precision == 0
\* ticker_min_base of the instrument, in lot steps
min_base == 1
\* max_orders, and the "< 2" ceilings of adjust_grid_strategy
max_orders == 8
SideOrderLimit == 2
\* age thresholds (seconds)
FillMinAge == 5
ZeroGap == 10
ShortThreshold == 60
MidThreshold == 120
StaleAge == 90
ForceStaleAge == 300
SyncInterval == 300
ExpireAge == 1800
EmergencyAge == 600
ValidatePeriod == 30
\* thresholds on the count of consecutive WebSocket=0 readings
ZeroStart == 3
ZeroVerify == 5
LongThreshold == 12
ClearAllMaxTracked == 4
\* force_cleanup_stale_orders: its own counter's thresholds
ForceMinTracked == 6
ForceZeroLimit == 20
\* validate_order_tracking: its trigger and its batch
EmergencyCount == 8
EmergencyBatch == 3
\* run(): seconds it waits for a first price
PriceTimeout == 10

\* ------------------------------------------------------------- arithmetic
RECURSIVE Power(_, _)
Power(b, n) == IF n = 0 THEN 1 ELSE b * Power(b, n - 1)

Pow10(n) == IF n = 0 THEN 1 ELSE IF n = 1 THEN 10 ELSE IF n = 2 THEN 100 ELSE 1000

Max(a, b) == IF a >= b THEN a ELSE b
Min(a, b) == IF a <= b THEN a ELSE b

\* floor and ceiling of a / b for a >= 0, b > 0
FloorDiv(a, b) == a \div b
CeilDiv(a, b) == (a + b - 1) \div b

\* Half ticks per quote unit, and lot steps per base unit.
HalfTicksPerUnit == 2 * Pow10(price_precision)
StepsPerUnit == Pow10(amount_precision)

\* A notional of n quote units, scaled so that
\*   steps * (num / GridDen half ticks) < n   <=>   steps * num < Scaled(n)
Scaled(n) == n * HalfTicksPerUnit * StepsPerUnit * GridDen

\* latest_price * (1 - grid_spacing) and latest_price * (1 + grid_spacing), exact:
\* numerators over GridDen half ticks.
BelowNum(p) == p * (GridDen - GridNum)
AboveNum(p) == p * (GridDen + GridNum)

\* round(x, ndigits) on the tick grid: nearest tick, a tie to the even tick.
\* The argument is num / GridDen half ticks; the result is in half ticks.
RoundHalfEven(num, den) ==
    LET q == num \div den
        r == num % den
    IN  IF 2 * r > den THEN q + 1
        ELSE IF 2 * r < den THEN q
        ELSE IF q % 2 = 0 THEN q ELSE q + 1

\* A price cut off at the tick below instead of rounded.
truncate_price(num) == 2 * FloorDiv(num, 2 * GridDen)

format_price(num) == 2 * RoundHalfEven(num, 2 * GridDen)

\* A calculate_order_quantity that leaves out the minimum quote amount.
calculate_order_quantity_floor(num) ==
    IF num <= 0 THEN 0
    ELSE LET floored == FloorDiv(Scaled(order_amount), num)
         IN  IF floored < 1 THEN 1 ELSE floored

\* calculate_order_quantity(price), price = num / GridDen half ticks; in lot steps.
calculate_order_quantity(num) ==
    IF num <= 0 THEN 0
    ELSE LET floored == FloorDiv(Scaled(order_amount), num)
             quantity == IF floored < 1 THEN 1 ELSE floored
         IN  IF quantity * num < Scaled(min_quote_amount)
             THEN CeilDiv(Scaled(min_quote_amount), num)
             ELSE quantity

\* Lighter.format_quantity for a quantity of a / b lot steps (a >= 0, b > 0), in
\* lot steps: int(q * 10^precision + 0.999) / 10^precision with a lot precision
\* above 0, round(q) with a lot precision of 0.
format_quantity(a, b) ==
    IF amount_precision > 0 THEN (1000 * a + 999 * b) \div (1000 * b)
    ELSE RoundHalfEven(a, b)

\* Lighter.validate_order_amount(price, quantity) -> (is_valid, adjusted_quantity).
\* price is a formatted price in half ticks, quantity is in lot steps.
validate_order_amount(price, quantity) ==
    IF quantity < min_base
        THEN [is_valid |-> FALSE, quantity |-> min_base]
    ELSE IF quantity * price * GridDen < Scaled(min_quote_amount)
        THEN IF price <= 0
             \* calculate_min_quantity_for_quote_amount raises: "Validation error"
             THEN [is_valid |-> FALSE, quantity |-> quantity]
             ELSE [is_valid |-> FALSE,
                   quantity |-> format_quantity(Scaled(min_quote_amount), price * GridDen)]
    ELSE [is_valid |-> TRUE, quantity |-> format_quantity(quantity, 1)]

\* ------------------------------------------------------------------ state
VARIABLES
    dry_run,              \* self.dry_run
    shutdown_requested,   \* self.shutdown_requested
    pc,                   \* where the control task (setup, run) stands
    latest_price,         \* self.latest_price, half ticks; 0 = unset
    best_bid_price,       \* self.best_bid_price, half ticks; 0 = None
    best_ask_price,       \* self.best_ask_price, half ticks; 0 = None
    long_position,        \* self.long_position, lot steps
    short_position,       \* self.short_position, lot steps
    active_orders,        \* self.active_orders: order id -> record (the Tracker)
    last_api_sync,        \* self._last_api_sync
    cycle_time,           \* run(): start_time, then current_time while the sync is
                          \* awaited; 0 when neither is live
    last_ws_order_count,  \* self._last_ws_order_count
    ws_zero_count,        \* self._ws_zero_count
    ws_zero_consecutive,  \* self._ws_zero_consecutive (absent = 0)
    last_ws_zero_time,    \* self._last_ws_zero_time
    pending,              \* the order whose limit_order call is awaited
    next_id,              \* the next order id a placement gets
    long_read,            \* latest_price as the long side of this decision read it
    deliveries,           \* how many account messages arrived
    cancelled_count,      \* cancel_all_orders: cancelled_count; 0 outside the call
    price_updated,        \* self.price_updated
    now,                  \* time.time()
    ticks,                \* how often the clock advanced
    tracker_active_orders, \* order_manager.py: OrderTracker.active_orders
    om_call,              \* order_manager.py: the call that returned last
    buy_orders_count,     \* order_manager.py: OrderTracker.buy_orders_count
    sell_orders_count,    \* order_manager.py: OrderTracker.sell_orders_count
    calc_price,           \* calculate_order_quantity: its argument price
    calc_quantity,        \* calculate_order_quantity: what it returned
    om_cancel,            \* order_manager.py: the last cancel_orders_for_side_safe:
                          \* its side, its result, the ids it sent cancel_order for
    applied,              \* of each order id that is followed: whether a fill or a
                          \* vanish of it changed the positions never, once or again
    ws_impl,              \* the account stream: which loop runs it, "manager"
                          \* (AccountWebSocketManager) or "bot" (the grid bot's own)
    ws_pc,                \* where that loop is
    ws_connected,         \* connected
    ws_subscribed,        \* subscribed
    ws_shutdown_requested, \* the shutdown flag the loop tests
    ws_retry_count,       \* retry_count
    ws_last_message_time, \* AccountWebSocketManager.last_message_time
    ws_wait_time,         \* the wait before the reconnection: -1 when there was none
    ws_last,              \* the last message of the session and what was done with it
    ws_confirmed,         \* a confirmation for account_orders arrived in this session
    ws_sessions,          \* how many sessions were started
    ws_failed,            \* how many sessions failed in a row
    ws_msgs,              \* how many messages this session has handled
    ws_end,               \* how the last session ended
    ws_raised,            \* how many sessions ended with an exception
    ws_ever_confirmed,    \* a confirmation for account_orders has arrived
    feed_impl,            \* which price-feed loop runs: "manager" or "bot"
    feed_pc,              \* where the price-feed loop is
    feed_shutdown_requested,
    feed_retry_count,     \* the local retry_count of the loop
    feed_ws_connected,    \* SimplifiedGridBot.ws_connected
    feed_wait_time,       \* the sleep after the last failed attempt, or NoWait
    feed_failures,        \* how many attempts in a row have raised
    mdm_price,            \* the price of the last validate_order_amount call
    mdm_quantity,         \* its quantity
    mdm_result,           \* what it returned
    arb_active_orders,    \* CrossExchangeArbitrageBot.active_orders
    arb_maker_order_count,
    arb_taker_order_count,
    arb_shutdown_requested,
    arb_pc,               \* "running" in the main loop, "stopped" after shutdown
    arb_next_id,          \* the id of the next order
    arb_now,              \* time.time() of the arbitrage bot
    arb_ticks

\* The state of the grid bot, and the state of an OrderTracker of order_manager.py
\* (the grid bot does not use one).
bot_vars == <<dry_run, shutdown_requested, pc, latest_price, best_bid_price,
              best_ask_price, long_position, short_position,
              active_orders, last_api_sync, cycle_time, last_ws_order_count,
              ws_zero_count, ws_zero_consecutive, last_ws_zero_time, pending,
              next_id, long_read, deliveries, cancelled_count, price_updated,
              now, ticks>>
om_vars == <<tracker_active_orders, om_call, buy_orders_count, sell_orders_count>>

fn_vars == <<calc_price, calc_quantity>>

batch_vars == <<om_cancel>>

ledger_vars == <<applied>>

\* The state of the loop that runs the account-orders stream.
stream_vars == <<ws_impl, ws_pc, ws_connected, ws_subscribed, ws_shutdown_requested,
                 ws_retry_count, ws_last_message_time, ws_wait_time, ws_last,
                 ws_confirmed, ws_sessions, ws_failed, ws_msgs, ws_end, ws_raised,
                 ws_ever_confirmed>>

\* The state of the loop that runs the price feed.
feed_vars == <<feed_impl, feed_pc, feed_shutdown_requested, feed_retry_count,
               feed_ws_connected, feed_wait_time, feed_failures>>

\* The last call of MarketDataManager.validate_order_amount.
mdm_vars == <<mdm_price, mdm_quantity, mdm_result>>

\* The state of the CrossExchangeArbitrageBot.
arb_vars == <<arb_active_orders, arb_maker_order_count, arb_taker_order_count,
              arb_shutdown_requested, arb_pc, arb_next_id, arb_now, arb_ticks>>

aux_vars == <<stream_vars, feed_vars, mdm_vars, arb_vars>>

\* Everything but the state of the account stream, and everything but the state
\* of the price feed.
not_stream_vars == <<bot_vars, om_vars, fn_vars, batch_vars, ledger_vars, feed_vars,
                     mdm_vars, arb_vars>>
not_feed_vars == <<bot_vars, om_vars, fn_vars, batch_vars, ledger_vars, stream_vars,
                   mdm_vars, arb_vars>>
not_arb_vars == <<bot_vars, om_vars, fn_vars, batch_vars, ledger_vars, stream_vars,
                  feed_vars, mdm_vars>>

vars == <<bot_vars, om_vars, fn_vars, batch_vars, ledger_vars, aux_vars>>

\* ------------------------------------------------------------------ values
OwnIds == 1..MaxOwnId
\* An order of this account that this process did not place.
ForeignId == MaxOwnId + 1
Ids == OwnIds \cup {ForeignId}

\* The books the feed reports, <<best bid, best ask>> in half ticks: 9.99 and
\* 10.01 (the mid price 10.00 is on a tick), 20.00 and 20.01 (the mid price is not).
Books == {<<1998, 2002>>, <<4000, 4002>>}

NoTimestamp == -1
NoOrder == [side |-> "none"]
NoId == -1
NoQuantity == -1
NoWait == -1
NoResult == [is_valid |-> FALSE, quantity |-> NoQuantity, called |-> FALSE]
NoMessage == [type |-> "none", sent |-> FALSE, processed |-> FALSE]

Tracked == DOMAIN active_orders

Order(side, price, quantity, position_type, timestamp) ==
    [side |-> side, price |-> price, quantity |-> quantity,
     position_type |-> position_type, timestamp |-> timestamp]

\* A dict without the keys in S, and a dict with key k set.
Without(orders, S) == [k \in (DOMAIN orders) \ S |-> orders[k]]
With(orders, k, rec) == [j \in (DOMAIN orders) \cup {k} |-> IF j = k THEN rec ELSE orders[j]]
Empty == [k \in {} |-> NoOrder]

\* The control task is suspended in an await of real I/O (or a sleep).
Yielded == pc \in {"setup_sync_await", "wait_price", "loop", "sync_await",
                   "long_await", "short_await", "cancel_await"}

\* A filter that selects the orders of the opposite side.
OrdersOfOtherSide(orders, position_type, side) ==
    {k \in DOMAIN orders :
        orders[k].position_type = position_type /\ orders[k].side # side}

\* The orders of one side of the book the grid logic counts.
OrdersOf(orders, position_type, side) ==
    {k \in DOMAIN orders :
        orders[k].position_type = position_type /\ orders[k].side = side}

\* The state after construction; followed are the order ids whose position
\* updates applied records.
InitFollowing(followed) ==
    /\ dry_run \in BOOLEAN
    /\ shutdown_requested = FALSE
    /\ pc = "setup"
    /\ latest_price = 0
    /\ best_bid_price = 0
    /\ best_ask_price = 0
    /\ long_position = 0
    /\ short_position = 0
    /\ active_orders = Empty
    /\ last_api_sync = 0
    /\ cycle_time = 0
    /\ last_ws_order_count = 0
    /\ ws_zero_count = 0
    /\ ws_zero_consecutive = 0
    /\ last_ws_zero_time = 0
    /\ pending = NoOrder
    /\ next_id = 1
    /\ long_read = 0
    /\ price_updated = FALSE
    /\ deliveries = 0
    /\ cancelled_count = 0
    /\ now = 0
    /\ ticks = 0
    /\ tracker_active_orders = Empty
    /\ om_call = [op |-> "none", id |-> NoId, result |-> "none"]
    /\ buy_orders_count = 0
    /\ sell_orders_count = 0
    /\ calc_price = 0
    /\ calc_quantity = NoQuantity
    /\ om_cancel = [position_side |-> "none", success |-> FALSE, cancelled_count |-> 0,
                    requested |-> {}, completed |-> {}]
    /\ applied = [k \in followed |-> "never"]
    /\ ws_impl = "none"
    /\ ws_pc = "new"
    /\ ws_connected = FALSE
    /\ ws_subscribed = FALSE
    /\ ws_shutdown_requested = FALSE
    /\ ws_retry_count = 0
    /\ ws_last_message_time = NoTimestamp
    /\ ws_wait_time = NoWait
    /\ ws_last = NoMessage
    /\ ws_confirmed = FALSE
    /\ ws_sessions = 0
    /\ ws_failed = 0
    /\ ws_msgs = 0
    /\ ws_end = "none"
    /\ ws_raised = 0
    /\ ws_ever_confirmed = FALSE
    /\ feed_impl = "none"
    /\ feed_pc = "new"
    /\ feed_shutdown_requested = FALSE
    /\ feed_retry_count = 0
    /\ feed_ws_connected = FALSE
    /\ feed_wait_time = NoWait
    /\ feed_failures = 0
    /\ mdm_price = 0
    /\ mdm_quantity = 0
    /\ mdm_result = NoResult
    /\ arb_active_orders = Empty
    /\ arb_maker_order_count = 0
    /\ arb_taker_order_count = 0
    /\ arb_shutdown_requested = FALSE
    /\ arb_pc = "running"
    /\ arb_next_id = 1
    /\ arb_now = 0
    /\ arb_ticks = 0

Init == InitFollowing({})

\* ------------------------------------------------------- tracker helpers
\* A scan "current_time - order_info['timestamp'] > age" over the whole dict raises
\* KeyError when a record has no 'timestamp' key (a record written by the REST sync).
HasAllTimestamps(orders) == \A k \in DOMAIN orders : orders[k].timestamp # NoTimestamp
OlderThan(orders, t, age) == {k \in DOMAIN orders : t - orders[k].timestamp > age}

\* The n first ids of S in the order (timestamp, dict order).  Every record with a
\* timestamp was inserted by place_order, in ascending id order, so dict order is
\* id order wherever a scan got through.
Before(orders, a, b) ==
    \/ orders[a].timestamp < orders[b].timestamp
    \/ orders[a].timestamp = orders[b].timestamp /\ a < b
Oldest(orders, S, n) ==
    {k \in S : Cardinality({j \in S : Before(orders, j, k)}) < n}
FirstKeys(orders, n) ==
    {k \in DOMAIN orders : Cardinality({j \in DOMAIN orders : j < k}) < n}

\* An inference that goes by the side alone: a buy is long, a sell is short.
infer_by_side(side, long, short) == IF side = "buy" THEN "long" ELSE "short"

\* position_type as sync_orders_from_api infers it (line 321)
infer_position_type(side, long, short) ==
    IF (side = "sell" /\ long <= 0) \/ (side = "buy" /\ short > 0)
    THEN "short" ELSE "long"

\* check_orders_status: the four order counters, each the quantity of the tracked
\* orders it counts.
RECURSIVE TotalQuantity(_, _)
TotalQuantity(orders, S) ==
    IF S = {} THEN 0
    ELSE LET k == CHOOSE j \in S : TRUE
         IN  orders[k].quantity + TotalQuantity(orders, S \ {k})

check_orders_status(orders, long, short) ==
    LET counted(side, as_long) ==
            {k \in DOMAIN orders :
                /\ orders[k].side = side
                /\ as_long = IF side = "buy" THEN ~(short > 0) ELSE long > 0}
    IN  [buy_long_orders |-> TotalQuantity(orders, counted("buy", TRUE)),
         sell_long_orders |-> TotalQuantity(orders, counted("sell", TRUE)),
         sell_short_orders |-> TotalQuantity(orders, counted("sell", FALSE)),
         buy_short_orders |-> TotalQuantity(orders, counted("buy", FALSE))]

\* A position update that subtracts an exit without the clamp at 0.
PositionsAfterUnclamped(pos, side, position_type, quantity) ==
    IF side = "buy" /\ position_type = "long"
        THEN [pos EXCEPT !.long = @ + quantity]
    ELSE IF side = "sell" /\ position_type = "long"
        THEN [pos EXCEPT !.long = @ - quantity]
    ELSE IF side = "sell" /\ position_type = "short"
        THEN [pos EXCEPT !.short = @ + quantity]
    ELSE IF side = "buy" /\ position_type = "short"
        THEN [pos EXCEPT !.short = @ - quantity]
    ELSE pos

\* The four-way position update, as each fill path writes it.
PositionsAfter(pos, side, position_type, quantity) ==
    IF side = "buy" /\ position_type = "long"
        THEN [pos EXCEPT !.long = @ + quantity]
    ELSE IF side = "sell" /\ position_type = "long"
        THEN [pos EXCEPT !.long = Max(0, @ - quantity)]
    ELSE IF side = "sell" /\ position_type = "short"
        THEN [pos EXCEPT !.short = @ + quantity]
    ELSE IF side = "buy" /\ position_type = "short"
        THEN [pos EXCEPT !.short = Max(0, @ - quantity)]
    ELSE pos

\* _update_positions_from_completed_order(order_info)
update_positions_from_completed_order(pos, o) ==
    IF o.quantity > 0 THEN PositionsAfter(pos, o.side, o.position_type, o.quantity)
    ELSE pos

\* handle_order_fill(fill_event, order_info)
handle_order_fill(pos, ev, o) ==
    PositionsAfter(pos, o.side, o.position_type, ev.fill_quantity)

Perms(S) ==
    {f \in [1..Cardinality(S) -> S] : \A i, j \in 1..Cardinality(S) : f[i] = f[j] => i = j}

\* The loop "for order_id in missing_order_ids: pop; update positions" in the
\* order seq; a Python set of str iterates in an order the hash seed decides.
RECURSIVE VanishAll(_, _, _)
VanishAll(orders, seq, pos) ==
    IF seq = <<>> THEN pos
    ELSE VanishAll(orders, Tail(seq),
                   update_positions_from_completed_order(pos, orders[Head(seq)]))

\* The ids of seq whose update in that loop changed the positions.
RECURSIVE VanishChanging(_, _, _)
VanishChanging(orders, seq, pos) ==
    IF seq = <<>> THEN {}
    ELSE LET after == update_positions_from_completed_order(pos, orders[Head(seq)])
         IN  (IF after # pos THEN {Head(seq)} ELSE {}) \cup
             VanishChanging(orders, Tail(seq), after)

\* applied once the positions were changed for the ids in S.
Logged(log, S) ==
    [k \in DOMAIN log |->
        IF k \notin S THEN log[k]
        ELSE IF log[k] = "never" THEN "once" ELSE "again"]

\* ------------------------------------------------- exchange-side messages
\* What the exchange reports of an order.  A tracked order is reported with its
\* own side and price and its whole quantity remaining; the foreign order with
\* the side ask says.  An order that is active is reported open with an amount
\* remaining, one that is not is reported filled with nothing remaining.
Report(k, active, ask) ==
    IF k \in Tracked
    THEN [status |-> IF active THEN "open" ELSE "filled",
          is_ask |-> active_orders[k].side = "sell",
          price |-> active_orders[k].price,
          base_amount |-> active_orders[k].quantity,
          remaining |-> IF active THEN active_orders[k].quantity ELSE 0]
    ELSE [status |-> IF active THEN "open" ELSE "filled", is_ask |-> ask,
          price |-> 2000, base_amount |-> 1,
          remaining |-> IF active THEN 1 ELSE 0]

Reportable == Tracked \cup {ForeignId}

\* Every order list the gateway may return: the ids present, those of them active.
Snapshots(ask) ==
    UNION {{[k \in present |-> Report(k, k \in act, ask)] : act \in SUBSET present} :
           present \in SUBSET Reportable}

\* The order lists the account stream carries: the foreign order, when it is
\* there, is active.
WsSnapshots ==
    {snap \in Snapshots(FALSE) :
        ForeignId \in DOMAIN snap => snap[ForeignId].status = "open"}

ActiveStatuses == {"active", "open", "pending", "live"}

\* A test that looks at the status only.
is_open_status(status, remaining) == status \in ActiveStatuses

\* OrderSyncManager._is_active_order, and the same test as the bot's sync and its
\* account-orders handler write it inline.
is_active_order(status, remaining) == status \in ActiveStatuses /\ remaining > 0

ActiveIds(orders) ==
    {k \in DOMAIN orders : is_active_order(orders[k].status, orders[k].remaining)}

\* One lifecycle event at most per message: a fill of one lot step (part of the
\* order or all of it) or a cancel.
Events ==
    {<<>>} \cup
    {<<[type |-> "fill", order_id |-> k, fill_quantity |-> 1]>> : k \in Tracked} \cup
    {<<[type |-> "cancel", order_id |-> k, fill_quantity |-> 0]>> : k \in Tracked}

\* ------------------------------------------------------- reconciliation
\* handle_order_lifecycle_event, for the events of one message in turn.
\* st = [orders, pos].
RECURSIVE handle_order_lifecycle_events(_, _)
handle_order_lifecycle_events(st, evs) ==
    IF evs = <<>> THEN st
    ELSE LET ev == Head(evs)
         IN  IF /\ ev.type \in {"fill", "partial_fill", "cancel", "cancelled"}
                /\ ev.order_id \in DOMAIN st.orders
             THEN handle_order_lifecycle_events(
                    [orders |-> Without(st.orders, {ev.order_id}),
                     pos |-> IF ev.type \in {"fill", "partial_fill"}
                             THEN handle_order_fill(st.pos, ev, st.orders[ev.order_id])
                             ELSE st.pos],
                    Tail(evs))
             ELSE handle_order_lifecycle_events(st, Tail(evs))

\* The ids whose fill event in evs changed the positions.
RECURSIVE EventsChanging(_, _)
EventsChanging(st, evs) ==
    IF evs = <<>> THEN {}
    ELSE LET after == handle_order_lifecycle_events(st, <<Head(evs)>>)
         IN  (IF after.pos # st.pos THEN {Head(evs).order_id} ELSE {}) \cup
             EventsChanging(after, Tail(evs))

\* _reconcile_order_tracking(real_active_orders) at time t; real_count is
\* len(real_active_orders).  The result is [orders, zc, lzt]: the Tracker,
\* _ws_zero_consecutive and _last_ws_zero_time.  _verify_orders_via_rest_api is
\* not defined anywhere: the call raises and the handler around it goes on.
\* A scan that raises KeyError ends the function with what was written so far.
reconcile_order_tracking(orders, zc, lzt, real_count, t) ==
    LET tracked_count == Cardinality(DOMAIN orders)
        keep == [orders |-> orders, zc |-> zc, lzt |-> lzt]
    IN  IF real_count >= tracked_count THEN [keep EXCEPT !.zc = 0]
        ELSE IF real_count = 0
        THEN LET zc1 == IF t - lzt < ZeroGap THEN Min(zc + 1, LongThreshold) ELSE 1
                 counted == [orders |-> orders, zc |-> zc1, lzt |-> t]
                 old_threshold == IF zc1 >= ZeroVerify THEN ShortThreshold
                                  ELSE MidThreshold
             IN  IF zc1 < ZeroStart THEN counted
                 ELSE IF ~HasAllTimestamps(orders) THEN counted
                 ELSE IF OlderThan(orders, t, old_threshold) # {}
                     THEN [counted EXCEPT
                             !.orders = Without(orders, OlderThan(orders, t, old_threshold))]
                 ELSE IF zc1 >= LongThreshold /\ tracked_count <= ClearAllMaxTracked
                     THEN [counted EXCEPT !.orders = Empty, !.zc = 0]
                 ELSE counted
        ELSE IF ~HasAllTimestamps(orders) THEN keep
        ELSE LET stale == OlderThan(orders, t, StaleAge)
                 n == Min(tracked_count - real_count, Cardinality(stale))
             IN  [keep EXCEPT !.orders = Without(orders, Oldest(orders, stale, n))]

\* A sync that takes over every order of the list, active or not.
sync_adopting_reported(orders, resp, long, short) ==
    IF resp.result \in {"raise", "notdict"} THEN orders
    ELSE [k \in DOMAIN resp.orders |->
            Order(IF resp.orders[k].is_ask THEN "sell" ELSE "buy",
                  resp.orders[k].price, resp.orders[k].remaining,
                  infer_position_type(IF resp.orders[k].is_ask THEN "sell" ELSE "buy",
                                      long, short),
                  NoTimestamp)]

\* SimplifiedGridBot.sync_orders_from_api once the gateway call has ended with
\* resp; long and short are the positions position_type is inferred from.
sync_orders_from_api(orders, resp, long, short) ==
    IF resp.result \in {"raise", "notdict"} THEN orders
    ELSE IF DOMAIN resp.orders = {} THEN Empty
    ELSE LET act == ActiveIds(resp.orders)
         IN  [k \in act |->
                Order(IF resp.orders[k].is_ask THEN "sell" ELSE "buy",
                      resp.orders[k].price,
                      resp.orders[k].remaining,
                      infer_position_type(IF resp.orders[k].is_ask THEN "sell" ELSE "buy",
                                          long, short),
                      NoTimestamp)]

\* order_manager.py: an OrderInfo, and OrderSyncManager.sync_orders_from_api on the
\* OrderTracker's active_orders once the gateway call has ended with resp at
\* time t.  An error reply carries a code other than 200.
OrderInfo(side, price, quantity, remaining_quantity, status, timestamp, position_type) ==
    [side |-> side, price |-> price, quantity |-> quantity,
     remaining_quantity |-> remaining_quantity, status |-> status,
     timestamp |-> timestamp, position_type |-> position_type]

OrderSyncManager_sync_orders_from_api(tracker, resp, t) ==
    IF resp.result \in {"raise", "notdict", "error"} THEN tracker
    ELSE [k \in ActiveIds(resp.orders) |->
            IF k \in DOMAIN tracker
            THEN [tracker[k] EXCEPT !.remaining_quantity = resp.orders[k].remaining,
                                    !.status = resp.orders[k].status]
            ELSE OrderInfo(IF resp.orders[k].is_ask THEN "sell" ELSE "buy",
                           resp.orders[k].price, resp.orders[k].base_amount,
                           resp.orders[k].remaining, resp.orders[k].status, t,
                           "none")]

\* OrderTracker._update_counters: the tracked orders with side buy, with side sell
CountSide(orders, side) == Cardinality({k \in DOMAIN orders : orders[k].side = side})

\* OrderTracker.remove_order(order_id)
remove_order(orders, id) == Without(orders, {id})

\* OrderTracker.update_order(order_id, **updates): setattr for every key of
\* updates that OrderInfo has as an attribute
update_order(orders, id, updates) ==
    IF id \notin DOMAIN orders THEN orders
    ELSE [orders EXCEPT ![id] =
            [f \in DOMAIN orders[id] |->
                IF f \in DOMAIN updates THEN updates[f] ELSE orders[id][f]]]

\* OrderTracker.cleanup_stale_orders(max_age_seconds) at time t
cleanup_stale_orders(orders, max_age_seconds, t) ==
    Without(orders, {k \in DOMAIN orders : t - orders[k].timestamp > max_age_seconds})

\* An add that keeps the record of an id that is tracked already.
add_if_absent(orders, id, order_info) ==
    IF id \in DOMAIN orders THEN orders ELSE With(orders, id, order_info)

\* OrderTracker.add_order(order_info), order_info.order_id = id
add_order(orders, id, order_info) == With(orders, id, order_info)

\* The gateway calls BatchOrderManager.cancel_all_orders_safe issues with the
\* manager's dry_run flag, in order.
cancel_all_orders_safe_calls(dry) ==
    IF dry THEN <<>> ELSE <<"cancel_all_orders">>

\* The gateway calls BatchOrderManager.cancel_orders_for_side_safe issues when
\* account_active_orders ends with resp: the fetch, then one cancel_order for
\* every order of the list that has an id, whichever side was asked for.
cancel_orders_for_side_safe_calls(dry, resp) ==
    IF dry THEN <<>>
    ELSE IF resp.result # "ok" THEN <<"account_active_orders">>
    ELSE <<"account_active_orders">> \o
         [i \in 1..Cardinality(DOMAIN resp.orders) |-> "cancel_order"]

\* BatchOrderManager.cancel_orders_for_side_safe(symbol, position_side) when
\* account_active_orders ends with resp and cancel_order raises for the ids of
\* raising: the result's success and cancelled_count, the ids cancel_order was
\* called for and those for which it returned.
cancel_orders_for_side_safe(dry, position_side, resp, raising) ==
    IF dry
    THEN [success |-> TRUE, cancelled_count |-> 0, requested |-> {}, completed |-> {}]
    ELSE IF resp.result # "ok"
    THEN [success |-> FALSE, cancelled_count |-> 0, requested |-> {}, completed |-> {}]
    ELSE LET orders_to_cancel ==
                 IF position_side \in {"long", "short"} THEN DOMAIN resp.orders ELSE {}
         IN  [success |-> TRUE,
              cancelled_count |-> Cardinality(orders_to_cancel \ raising),
              requested |-> orders_to_cancel,
              completed |-> orders_to_cancel \ raising]

\* A cleanup that removes nothing.
no_cleanup(orders, wzc, lwc, t) == [orders |-> orders, wzc |-> wzc]

\* force_cleanup_stale_orders at time t.  The result is [orders, wzc]: the Tracker
\* and _ws_zero_count.
force_cleanup_stale_orders(orders, wzc, lwc, t) ==
    IF ~HasAllTimestamps(orders) THEN [orders |-> orders, wzc |-> wzc]
    ELSE LET left == Without(orders, OlderThan(orders, t, ForceStaleAge))
             n == Cardinality(DOMAIN left)
         IN  IF n = 0 THEN [orders |-> left, wzc |-> wzc]
             ELSE IF lwc = 0 /\ n >= ForceMinTracked
                 THEN IF wzc + 1 > ForceZeroLimit
                      THEN IF n > ClearAllMaxTracked
                           THEN [orders |-> Without(left, FirstKeys(left, n \div 2)),
                                 wzc |-> 0]
                           ELSE [orders |-> left, wzc |-> wzc + 1]
                      ELSE [orders |-> left, wzc |-> wzc + 1]
             ELSE [orders |-> left, wzc |-> Max(0, wzc - 1)]

\* validate_order_tracking at time t (reached only after the expiry scan got through)
validate_order_tracking(orders, t) ==
    IF dry_run THEN orders
    ELSE IF Cardinality(DOMAIN orders) > EmergencyCount
        THEN LET very_old == OlderThan(orders, t, EmergencyAge)
             IN  Without(orders, Oldest(orders, very_old, EmergencyBatch))
    ELSE orders

\* A fill simulation that does not ask for dry_run.
FillAnyMode ==
    {k \in DOMAIN active_orders :
        /\ active_orders[k].timestamp # NoTimestamp
        /\ now - active_orders[k].timestamp > FillMinAge}

\* A dry-run simulation that fills whatever is old enough, crossed or not.
FillUncrossed ==
    IF ~dry_run THEN {}
    ELSE {k \in Tracked : now - active_orders[k].timestamp > FillMinAge}

\* simulate_order_fills_in_dry_run: the orders the price has crossed and that are
\* more than 5 seconds old; random.random() < 0.3 picks which of them fill.
FillEligible ==
    IF ~dry_run THEN {}
    ELSE {k \in Tracked :
            /\ \/ active_orders[k].side = "buy" /\ latest_price <= active_orders[k].price
               \/ active_orders[k].side = "sell" /\ latest_price >= active_orders[k].price
            /\ now - active_orders[k].timestamp > FillMinAge}

\* A position update with a risk controller: when both sides hold a position
\* each is cut by one lot step, and nothing is filled.
ReduceBothSides(orders, S, pos) ==
    IF pos.long >= 1 /\ pos.short >= 1
    THEN [long |-> pos.long - 1, short |-> pos.short - 1]
    ELSE pos

\* The loop over orders_to_fill, in dict order.
RECURSIVE FillAll(_, _, _)
FillAll(orders, S, pos) ==
    IF S = {} THEN pos
    ELSE LET k == CHOOSE j \in S : \A i \in S : j <= i
         IN  FillAll(orders, S \ {k},
                     PositionsAfter(pos, orders[k].side, orders[k].position_type,
                                    orders[k].quantity))

\* The ids of S whose fill in that loop changed the positions.
RECURSIVE FillChanging(_, _, _)
FillChanging(orders, S, pos) ==
    IF S = {} THEN {}
    ELSE LET k == CHOOSE j \in S : \A i \in S : j <= i
             after == PositionsAfter(pos, orders[k].side, orders[k].position_type,
                                     orders[k].quantity)
         IN  (IF after # pos THEN {k} ELSE {}) \cup FillChanging(orders, S \ {k}, after)

Positions == [long |-> long_position, short |-> short_position]

\* ---------------------------------------------------------------- actions
\* The clock advances while the control task sleeps: between two cycles, or in
\* the wait for a first price as long as there is none.
Tick ==
    /\ pc = "loop" \/ (pc = "wait_price" /\ latest_price = 0)
    /\ ticks < MaxTicks
    /\ now' = now + TickSeconds
    /\ ticks' = ticks + 1
    /\ UNCHANGED <<dry_run, shutdown_requested, pc, latest_price, best_bid_price,
                   best_ask_price, long_position, short_position,
                   active_orders, last_api_sync, cycle_time, last_ws_order_count,
                   ws_zero_count, ws_zero_consecutive, last_ws_zero_time, pending,
                   next_id, long_read,
                   deliveries, cancelled_count, price_updated, om_vars, fn_vars, batch_vars, ledger_vars, aux_vars>>

\* setup(): up to the await of the initial sync_orders_from_api.
Setup ==
    /\ pc = "setup"
    /\ IF dry_run
       THEN /\ pc' = "wait_price"
            /\ last_api_sync' = now
            /\ cycle_time' = now
       ELSE /\ pc' = "setup_sync_await"
            /\ UNCHANGED <<last_api_sync, cycle_time>>
    /\ UNCHANGED <<dry_run, shutdown_requested, latest_price, best_bid_price,
                   best_ask_price, long_position, short_position,
                   active_orders, last_ws_order_count, ws_zero_count,
                   ws_zero_consecutive, last_ws_zero_time, pending, next_id, long_read, now, ticks,
                   deliveries, cancelled_count, price_updated, om_vars, fn_vars, batch_vars, ledger_vars, aux_vars>>

\* What account_active_orders ends with: it raises, returns something that is no
\* dict, returns an error reply without an order list, or returns an order list.
RestResponses ==
    {[result |-> r, orders |-> Empty] : r \in {"raise", "notdict", "error"}} \cup
    {[result |-> "ok", orders |-> snap] : snap \in Snapshots(FALSE) \cup Snapshots(TRUE)}

\* sync_orders_from_api after its await with the response resp, and the caller's
\* next lines.
SyncReturnWith(resp) ==
    /\ pc \in {"setup_sync_await", "sync_await"}
    /\ active_orders' = sync_orders_from_api(active_orders, resp, long_position,
                                             short_position)
    /\ IF pc = "setup_sync_await"
       THEN /\ last_api_sync' = now
            /\ cycle_time' = now
            /\ pc' = "wait_price"
       ELSE /\ last_api_sync' = cycle_time
            /\ cycle_time' = 0
            /\ pc' = "adjust"
    /\ UNCHANGED <<dry_run, shutdown_requested, latest_price, best_bid_price,
                   best_ask_price, long_position, short_position,
                   last_ws_order_count, ws_zero_count, ws_zero_consecutive,
                   last_ws_zero_time, pending, next_id, long_read, now, ticks,
                   deliveries, cancelled_count, price_updated, om_vars, fn_vars, batch_vars, ledger_vars, aux_vars>>

SyncReturn == \E resp \in RestResponses : SyncReturnWith(resp)

\* The update/account_orders messages the account stream may carry.
WsMessages ==
    {[orders |-> snap, events |-> evs] : snap \in WsSnapshots, evs \in Events}

\* handle_account_orders_update(data), _reconcile_order_tracking included.
handle_account_orders_update(data) ==
    /\ Yielded
    /\ ~dry_run /\ ~shutdown_requested
    /\ deliveries < MaxDeliveries
    /\ deliveries' = deliveries + 1
    /\ LET evd == handle_order_lifecycle_events(
                    [orders |-> active_orders, pos |-> Positions], data.events)
           websocket_order_ids == DOMAIN data.orders
           real_count == Cardinality(ActiveIds(data.orders))
           missing_order_ids == (DOMAIN evd.orders) \ websocket_order_ids
           left == Without(evd.orders, missing_order_ids)
       IN  \E seq \in Perms(missing_order_ids) :
             LET pos == VanishAll(evd.orders, seq, evd.pos)
                 rec == reconcile_order_tracking(left, ws_zero_consecutive,
                                                 last_ws_zero_time, real_count, now)
             IN  /\ pos.long <= MaxPosition /\ pos.short <= MaxPosition
                 /\ long_position' = pos.long
                 /\ short_position' = pos.short
                 /\ applied' = Logged(applied,
                        EventsChanging([orders |-> active_orders, pos |-> Positions],
                                       data.events)
                        \cup VanishChanging(evd.orders, seq, evd.pos))
                 /\ active_orders' = rec.orders
                 /\ ws_zero_consecutive' = rec.zc
                 /\ last_ws_zero_time' = rec.lzt
                 /\ last_ws_order_count' = real_count
    /\ UNCHANGED <<dry_run, shutdown_requested, pc, latest_price, best_bid_price,
                   best_ask_price, last_api_sync, cycle_time,
                   ws_zero_count, pending, next_id, long_read, now, ticks,
                   cancelled_count, price_updated, om_vars, fn_vars, batch_vars, aux_vars>>

HandleAccountOrdersUpdate == \E data \in WsMessages : handle_account_orders_update(data)

\* on_order_book_update(market_id, order_book) with best bid and ask book
on_order_book_update(book) ==
    /\ pc \in {"wait_price", "loop", "sync_await", "long_await", "short_await",
               "cancel_await"}
    /\ pc = "wait_price" => now - cycle_time < PriceTimeout
    /\ best_bid_price' = book[1]
    /\ best_ask_price' = book[2]
    /\ latest_price' = (book[1] + book[2]) \div 2
    /\ price_updated' = TRUE
    /\ UNCHANGED <<dry_run, shutdown_requested, pc, long_position, short_position,
                   active_orders, last_api_sync, cycle_time, last_ws_order_count,
                   ws_zero_count, ws_zero_consecutive, last_ws_zero_time, pending,
                   next_id, long_read, now, ticks,
                   deliveries, cancelled_count, om_vars, fn_vars, batch_vars, ledger_vars, aux_vars>>

OnOrderBookUpdate == \E book \in Books : on_order_book_update(book)

\* run(): the wait for a first price ends with a price ...
WaitPriceDone ==
    /\ pc = "wait_price"
    /\ latest_price # 0
    /\ pc' = "loop"
    /\ cycle_time' = 0
    /\ UNCHANGED <<dry_run, shutdown_requested, latest_price, best_bid_price,
                   best_ask_price, long_position, short_position,
                   active_orders, last_api_sync, last_ws_order_count,
                   ws_zero_count, ws_zero_consecutive, last_ws_zero_time, pending,
                   next_id, long_read, now, ticks,
                   deliveries, cancelled_count, price_updated, om_vars, fn_vars, batch_vars, ledger_vars, aux_vars>>

\* A shutdown that ends without cancelling anything.
EndWithoutCancel ==
    /\ pc' = "stopped"
    /\ UNCHANGED <<active_orders, cancelled_count>>

\* cancel_all_orders up to its await: the Tracker is cleared before the call.
CancelAllBegin ==
    /\ cancelled_count' = IF dry_run THEN 0 ELSE Cardinality(Tracked)
    /\ active_orders' = Empty
    /\ pc' = IF dry_run THEN "stopped" ELSE "cancel_await"

\* ... or without one: run() raises and main() calls graceful_shutdown.
WaitPriceTimeout ==
    /\ pc = "wait_price"
    /\ latest_price = 0
    /\ now - cycle_time >= PriceTimeout
    /\ shutdown_requested' = TRUE
    /\ cycle_time' = 0
    /\ CancelAllBegin
    /\ UNCHANGED <<dry_run, latest_price, best_bid_price, best_ask_price,
                   long_position, short_position, last_api_sync,
                   last_ws_order_count, ws_zero_count,
                   ws_zero_consecutive, last_ws_zero_time, pending, next_id, long_read, now, ticks,
                   deliveries, price_updated, om_vars, fn_vars, batch_vars, ledger_vars, aux_vars>>

\* One iteration of run()'s loop, up to the sync's await or to adjust_grid_strategy:
\* force_cleanup_stale_orders, then the periodic sync when it is due.
CycleStart ==
    /\ pc = "loop"
    /\ ~shutdown_requested
    /\ (price_updated \/ TRUE)
    /\ LET fc == force_cleanup_stale_orders(active_orders, ws_zero_count,
                                            last_ws_order_count, now)
           due == now - last_api_sync > SyncInterval
       IN  /\ active_orders' = fc.orders
           /\ ws_zero_count' = fc.wzc
           /\ cycle_time' = (IF due /\ ~dry_run THEN now ELSE 0)
           /\ IF due /\ ~dry_run
              THEN pc' = "sync_await" /\ UNCHANGED last_api_sync
              ELSE /\ pc' = "adjust"
                   /\ last_api_sync' = IF due THEN now ELSE last_api_sync
    /\ UNCHANGED <<dry_run, shutdown_requested, latest_price, best_bid_price,
                   best_ask_price, long_position, short_position,
                   last_ws_order_count, ws_zero_consecutive, last_ws_zero_time,
                   pending, next_id, long_read, now, ticks,
                   deliveries, cancelled_count, price_updated, om_vars, fn_vars, batch_vars, ledger_vars, aux_vars>>

\* An adjust_grid_strategy that goes on to its grid logic whatever it tracks.
AdjustReachingGrid ==
    /\ pc = "adjust"
    /\ pc' = "long_side"
    /\ UNCHANGED <<dry_run, shutdown_requested, latest_price, best_bid_price,
                   best_ask_price, long_position, short_position, active_orders,
                   last_api_sync, cycle_time,
                   last_ws_order_count, ws_zero_count, ws_zero_consecutive,
                   last_ws_zero_time, pending, next_id, long_read, now, ticks,
                   deliveries, cancelled_count, price_updated, om_vars, fn_vars, batch_vars, ledger_vars, aux_vars>>

\* adjust_grid_strategy up to its grid logic: the dry-run fills, the expiry scan,
\* the periodic validation, the order ceiling.  An exception ends the call.
AdjustBegin ==
    /\ pc = "adjust"
    /\ \E filled \in SUBSET FillEligible :
         LET pos == FillAll(active_orders, filled, Positions)
             orders1 == Without(active_orders, filled)
             orders2 == Without(orders1, OlderThan(orders1, now, ExpireAge))
             orders3 == IF now % ValidatePeriod = 0
                        THEN validate_order_tracking(orders2, now) ELSE orders2
         IN  /\ pos.long <= MaxPosition /\ pos.short <= MaxPosition
             /\ long_position' = pos.long
             /\ short_position' = pos.short
             /\ applied' = Logged(applied, FillChanging(active_orders, filled, Positions))
             /\ IF ~HasAllTimestamps(orders1)
                THEN active_orders' = orders1 /\ pc' = "cycle_end"
                ELSE /\ active_orders' = orders3
                     /\ pc' = IF Cardinality(DOMAIN orders3) >= max_orders
                              THEN "cycle_end" ELSE "long_side"
    /\ UNCHANGED <<dry_run, shutdown_requested, latest_price, best_bid_price,
                   best_ask_price, last_api_sync, cycle_time,
                   last_ws_order_count, ws_zero_count, ws_zero_consecutive,
                   last_ws_zero_time, pending, next_id, long_read, now, ticks,
                   deliveries, cancelled_count, price_updated, om_vars, fn_vars, batch_vars, aux_vars>>

\* A place_order that hands every order to the gateway, dry run or not.
place_order_always_live(side, num, quantity, position_type, await_pc, next_pc, ids) ==
    /\ pending' = Order(side, format_price(num), quantity, position_type, NoTimestamp)
    /\ pc' = await_pc
    /\ UNCHANGED <<active_orders, next_id>>

\* place_order(side, price, quantity, position_type) up to its await; price is
\* num / GridDen half ticks.  A dry-run order gets the id str(int(time.time() *
\* 1000)): a new one, or (ids) the one of the order placed within the same
\* millisecond.
place_order(side, num, quantity, position_type, await_pc, next_pc, ids) ==
    IF Cardinality(Tracked) >= max_orders
    THEN pc' = next_pc /\ UNCHANGED <<active_orders, pending, next_id>>
    ELSE LET formatted_price == format_price(num)
             v == validate_order_amount(formatted_price, quantity)
             q == IF v.is_valid THEN quantity ELSE v.quantity
         IN  IF dry_run
             THEN \E id \in ids :
                    /\ id <= MaxOwnId
                    /\ active_orders' = With(active_orders, id,
                           Order(side, formatted_price, q, position_type, now))
                    /\ next_id' = Max(next_id, id + 1)
                    /\ pc' = next_pc
                    /\ UNCHANGED pending
             ELSE /\ pending' = Order(side, formatted_price, q, position_type,
                                      NoTimestamp)
                  /\ pc' = await_pc
                  /\ UNCHANGED <<active_orders, next_id>>

\* A long side that works on its entry whatever the position.
always_entry(position) == "buy"

\* The order each side of adjust_grid_strategy works on: the entry while the side
\* is flat, the exit while it holds a position.
long_side_order(position) == IF position = 0 THEN "buy" ELSE "sell"
short_side_order(position) == IF position = 0 THEN "sell" ELSE "buy"

\* A grid price whose long exit follows the hedge ratio long_position /
\* short_position: price * (1 + ratio / 100) while the short side holds a position.
hedge_grid_price(side, price) ==
    IF side = "sell" /\ long_position > 0 /\ short_position > 0
    THEN price * (GridDen + (100 * long_position) \div short_position)
    ELSE IF side = "buy" THEN BelowNum(price) ELSE AboveNum(price)

\* The unrounded price of an order of adjust_grid_strategy, over GridDen: buys at
\* latest_price * (1 - grid_spacing), sells at latest_price * (1 + grid_spacing).
grid_price(side, price) == IF side = "buy" THEN BelowNum(price) ELSE AboveNum(price)

\* adjust_grid_strategy, the long side (lines 1061-1088)
LongSide ==
    /\ pc = "long_side"
    /\ LET side == long_side_order(long_position)
           num == grid_price(side, latest_price)
       IN  IF Cardinality(OrdersOf(active_orders, "long", side)) < SideOrderLimit
           THEN /\ long_read' = latest_price
                /\ place_order(side, num, calculate_order_quantity(num), "long",
                               "long_await", "short_side", {next_id})
           ELSE /\ long_read' = 0
                /\ pc' = "short_side"
                /\ UNCHANGED <<active_orders, pending, next_id>>
    /\ UNCHANGED <<dry_run, shutdown_requested, latest_price, best_bid_price,
                   best_ask_price, long_position, short_position,
                   last_api_sync, cycle_time, last_ws_order_count, ws_zero_count,
                   ws_zero_consecutive, last_ws_zero_time, now, ticks,
                   deliveries, cancelled_count, price_updated, om_vars, fn_vars, batch_vars, ledger_vars, aux_vars>>

\* The id of the order the long side tracked in this very call, if it did.
SameMillisecond ==
    IF /\ dry_run /\ long_read # 0 /\ next_id - 1 \in Tracked
       /\ active_orders[next_id - 1].timestamp = now
    THEN {next_id - 1} ELSE {}

\* adjust_grid_strategy, the short side (lines 1091-1118)
ShortSide ==
    /\ pc = "short_side"
    /\ LET side == short_side_order(short_position)
           num == grid_price(side, latest_price)
       IN  IF Cardinality(OrdersOf(active_orders, "short", side)) < SideOrderLimit
           THEN place_order(side, num, calculate_order_quantity(num), "short",
                            "short_await", "cycle_end", {next_id} \cup SameMillisecond)
           ELSE /\ pc' = "cycle_end"
                /\ UNCHANGED <<active_orders, pending, next_id>>
    /\ UNCHANGED <<dry_run, shutdown_requested, latest_price, best_bid_price,
                   best_ask_price, long_position, short_position,
                   last_api_sync, cycle_time, last_ws_order_count, ws_zero_count,
                   ws_zero_consecutive, last_ws_zero_time, long_read, now,
                   ticks,
                   deliveries, cancelled_count, price_updated, om_vars, fn_vars, batch_vars, ledger_vars, aux_vars>>

\* place_order after its await: limit_order returned None, an error, a result of
\* an unexpected shape, or raised; or it returned a result and the order is tracked.
PlaceResults == {"none", "error", "unexpected", "raise", "ok"}

\* A result test that lets everything but None through.
tracked_unless_none(result) == result # "none"

\* The order is tracked when limit_order returned a tuple of two or more whose
\* error is None.
order_tracked(result) == result = "ok"

PlaceReturnWith(result) ==
    /\ pc \in {"long_await", "short_await"}
    /\ result \in PlaceResults
    /\ IF order_tracked(result)
       THEN /\ next_id <= MaxOwnId
            /\ active_orders' = With(active_orders, next_id,
                                     [pending EXCEPT !.timestamp = now])
            /\ next_id' = next_id + 1
       ELSE UNCHANGED <<active_orders, next_id>>
    /\ pending' = NoOrder
    /\ pc' = IF pc = "long_await" THEN "short_side" ELSE "cycle_end"
    /\ UNCHANGED <<dry_run, shutdown_requested, latest_price, best_bid_price,
                   best_ask_price, long_position, short_position,
                   last_api_sync, cycle_time, last_ws_order_count, ws_zero_count,
                   ws_zero_consecutive, last_ws_zero_time, long_read, now,
                   ticks,
                   deliveries, cancelled_count, price_updated, om_vars, fn_vars, batch_vars, ledger_vars, aux_vars>>

\* run(): the lines after adjust_grid_strategy, up to the sleep.
CycleEnd ==
    /\ pc = "cycle_end"
    /\ long_read' = 0
    /\ price_updated' = FALSE
    /\ pc' = "loop"
    /\ UNCHANGED <<dry_run, shutdown_requested, latest_price, best_bid_price,
                   best_ask_price, long_position, short_position, active_orders,
                   last_api_sync, cycle_time, last_ws_order_count, ws_zero_count,
                   ws_zero_consecutive, last_ws_zero_time, pending, next_id, now, ticks,
                   deliveries, cancelled_count, om_vars, fn_vars, batch_vars, ledger_vars, aux_vars>>

\* A signal handler that starts the cancel-all itself, whatever the control task
\* is waiting for.
ShutdownCancelsAtOnce ==
    /\ Yielded
    /\ ~shutdown_requested /\ ~dry_run
    /\ shutdown_requested' = TRUE
    /\ cancelled_count' = Cardinality(Tracked)
    /\ active_orders' = Empty
    /\ pc' = "cancel_await"
    /\ UNCHANGED <<dry_run, latest_price, best_bid_price, best_ask_price,
                   long_position, short_position,
                   last_api_sync, cycle_time, last_ws_order_count, ws_zero_count,
                   ws_zero_consecutive, last_ws_zero_time, pending, next_id, long_read, now, ticks,
                   deliveries, price_updated, om_vars, fn_vars, batch_vars, ledger_vars, aux_vars>>

\* signal_handler: SIGINT or SIGTERM
RequestShutdown ==
    /\ Yielded
    /\ ~shutdown_requested
    /\ shutdown_requested' = TRUE
    /\ UNCHANGED <<dry_run, pc, latest_price, best_bid_price, best_ask_price,
                   long_position, short_position, active_orders,
                   last_api_sync, cycle_time, last_ws_order_count, ws_zero_count,
                   ws_zero_consecutive, last_ws_zero_time, pending, next_id, long_read, now, ticks,
                   deliveries, cancelled_count, price_updated, om_vars, fn_vars, batch_vars, ledger_vars, aux_vars>>

\* run(): the loop ends and graceful_shutdown runs up to cancel_all_orders' await.
LoopExit ==
    /\ pc = "loop"
    /\ shutdown_requested
    /\ CancelAllBegin
    /\ UNCHANGED <<dry_run, shutdown_requested, latest_price, best_bid_price,
                   best_ask_price, long_position, short_position,
                   last_api_sync, cycle_time, last_ws_order_count, ws_zero_count,
                   ws_zero_consecutive, last_ws_zero_time, pending, next_id, long_read, now, ticks,
                   deliveries, price_updated, om_vars, fn_vars, batch_vars, ledger_vars, aux_vars>>

\* What the gateway's cancel_all_orders ends with: None, a tuple with an error,
\* a tuple of an unexpected length, an exception, or a success.
CancelResults == {"none", "error", "unexpected", "raise", "ok"}

\* cancel_all_orders after its await: every result is logged and cancelled_count
\* returned; the Tracker stays as the lines before the call left it.
CancelReturnWith(result) ==
    /\ pc = "cancel_await"
    /\ result \in CancelResults
    /\ pc' = "stopped"
    /\ cancelled_count' = 0
    /\ UNCHANGED <<dry_run, shutdown_requested, latest_price, best_bid_price,
                   best_ask_price, long_position, short_position,
                   active_orders, last_api_sync, cycle_time, last_ws_order_count,
                   ws_zero_count, ws_zero_consecutive, last_ws_zero_time, pending,
                   next_id, long_read, now, ticks,
                   deliveries, price_updated, om_vars, fn_vars, batch_vars, ledger_vars, aux_vars>>

CancelReturn == \E result \in CancelResults : CancelReturnWith(result)

PlaceReturn == \E result \in PlaceResults : PlaceReturnWith(result)

Next ==
    \/ Tick
    \/ Setup
    \/ SyncReturn
    \/ HandleAccountOrdersUpdate
    \/ OnOrderBookUpdate
    \/ WaitPriceDone
    \/ WaitPriceTimeout
    \/ CycleStart
    \/ AdjustBegin
    \/ LongSide
    \/ ShortSide
    \/ PlaceReturn
    \/ CycleEnd
    \/ RequestShutdown
    \/ LoopExit
    \/ CancelReturn

Spec == Init /\ [][Next]_vars

\* The steps of the control task (setup, run, graceful_shutdown), the returns of
\* the gateway calls it awaits included.
ControlStep ==
    \/ Setup
    \/ SyncReturn
    \/ WaitPriceDone
    \/ WaitPriceTimeout
    \/ CycleStart
    \/ AdjustBegin
    \/ LongSide
    \/ ShortSide
    \/ PlaceReturn
    \/ CycleEnd
    \/ LoopExit
    \/ CancelReturn

\* The bot with a silent account stream: the control task, the clock, the price
\* feed and the signal handler.  (The account-orders handler does nothing once
\* shutdown is requested; what it did before is left out here.)
QuietNext ==
    \/ ControlStep
    \/ Tick
    \/ OnOrderBookUpdate
    \/ RequestShutdown

\* The event loop runs the control task whenever it can go on, every gateway call
\* it awaits ends (returns, fails or times out), and the clock of the wait for a
\* first price advances.
FairSpec ==
    /\ Init
    /\ [][QuietNext]_vars
    /\ WF_vars(ControlStep)
    /\ WF_vars(Tick /\ pc = "wait_price")

\* The bot on a market whose best bid is 0.00 and whose best ask is 0.01, with
\* the account stream silent.
LowBooks == {<<0, 2>>}

OnLowBookUpdate == \E book \in LowBooks : on_order_book_update(book)

LowPriceNext ==
    \/ ControlStep
    \/ Tick
    \/ OnLowBookUpdate
    \/ RequestShutdown

LowPriceSpec == Init /\ [][LowPriceNext]_vars

\* The bot on an account that has many orders open on the exchange (left by an
\* earlier run, or placed by hand), with the account stream silent: the replies
\* of account_active_orders list none of them, or max_orders - 1 up to MaxListed
\* of them, all open.
ListedIds(n) == ForeignId..(ForeignId + n - 1)

CeilingResponses ==
    {[result |-> "ok", orders |-> [k \in ListedIds(n) |-> Report(k, TRUE, ask)]] :
        n \in {0} \cup ((max_orders - 1)..MaxListed), ask \in BOOLEAN}

CeilingSyncReturn == \E resp \in CeilingResponses : SyncReturnWith(resp)

CeilingNext ==
    \/ Setup
    \/ CeilingSyncReturn
    \/ WaitPriceDone
    \/ WaitPriceTimeout
    \/ CycleStart
    \/ AdjustBegin
    \/ LongSide
    \/ ShortSide
    \/ PlaceReturn
    \/ CycleEnd
    \/ LoopExit
    \/ CancelReturn
    \/ Tick
    \/ OnOrderBookUpdate
    \/ RequestShutdown

CeilingSpec == Init /\ [][CeilingNext]_vars

\* The bot as long as no shutdown is requested, with the position updates of
\* every order id followed.
LedgerNext ==
    \/ Tick
    \/ Setup
    \/ SyncReturn
    \/ HandleAccountOrdersUpdate
    \/ OnOrderBookUpdate
    \/ WaitPriceDone
    \/ WaitPriceTimeout
    \/ CycleStart
    \/ AdjustBegin
    \/ LongSide
    \/ ShortSide
    \/ PlaceReturn
    \/ CycleEnd

LedgerInit == InitFollowing(Ids)

LedgerSpec == LedgerInit /\ [][LedgerNext]_vars

\* ------------------------------------------ calculate_order_quantity alone
\* The prices calculate_order_quantity is called with, as numerators over GridDen
\* half ticks: -1.00, 0, and every multiple of 0.125 up to MaxQtyPrice / 8, each
\* as it is, lowered by the grid spacing and raised by it.
QtyPrices ==
    {-200 * GridDen, 0} \cup
    UNION {{BelowNum(25 * i), 25 * i * GridDen, AboveNum(25 * i)} : i \in 1..MaxQtyPrice}

\* self.calculate_order_quantity(price)
CalculateOrderQuantity(price) ==
    /\ calc_price' = price
    /\ calc_quantity' = calculate_order_quantity(price)
    /\ UNCHANGED <<bot_vars, om_vars, batch_vars, ledger_vars, aux_vars>>

QtyNext == \E price \in QtyPrices : CalculateOrderQuantity(price)

QtySpec == Init /\ [][QtyNext]_vars

\* ------------------------------------------------------ order_manager.py
\* The OrderInfo records a caller may hand to add_order.
OrderInfos ==
    {OrderInfo(side, 2000, quantity, quantity, "open", now, position_type) :
        side \in {"buy", "sell"}, quantity \in {1, 2},
        position_type \in {"long", "short"}}

\* What account_active_orders may report of an order to the OrderSyncManager:
\* an order for 2 lot steps, with any status and with 0 or 1 of them remaining.
OMReports ==
    {[status |-> status, is_ask |-> FALSE, price |-> 2000, base_amount |-> 2,
      remaining |-> remaining] :
        status \in {"open", "filled"}, remaining \in {0, 1}}

OMResponses ==
    {[result |-> r, orders |-> Empty] : r \in {"raise", "notdict", "error"}} \cup
    {[result |-> "ok", orders |-> snap] :
        snap \in UNION {[present -> OMReports] : present \in SUBSET OwnIds}}

\* tracker.add_order(order_info)
OMAddOrder(id, order_info) ==
    /\ tracker_active_orders' = add_order(tracker_active_orders, id, order_info)
    /\ om_call' = [op |-> "add_order", id |-> id, result |-> "none"]
    /\ buy_orders_count' = CountSide(tracker_active_orders', "buy")
    /\ sell_orders_count' = CountSide(tracker_active_orders', "sell")
    /\ UNCHANGED <<bot_vars, fn_vars, batch_vars, ledger_vars, aux_vars>>

AddOrder == \E id \in OwnIds : \E order_info \in OrderInfos : OMAddOrder(id, order_info)

\* OrderSyncManager.sync_orders_from_api(symbol), the gateway call ending with resp
OMSync(resp) ==
    /\ tracker_active_orders' =
          OrderSyncManager_sync_orders_from_api(tracker_active_orders, resp, now)
    /\ om_call' = [op |-> "sync_orders_from_api", id |-> NoId, result |-> resp.result]
    /\ IF tracker_active_orders = Empty /\ tracker_active_orders' = Empty
       THEN UNCHANGED <<buy_orders_count, sell_orders_count>>
       ELSE /\ buy_orders_count' = CountSide(tracker_active_orders', "buy")
            /\ sell_orders_count' = CountSide(tracker_active_orders', "sell")
    /\ UNCHANGED <<bot_vars, fn_vars, batch_vars, ledger_vars, aux_vars>>

SyncOrders == \E resp \in OMResponses : OMSync(resp)

NextOM ==
    \/ AddOrder
    \/ SyncOrders

SpecOM == Init /\ [][NextOM]_vars

\* An OrderTracker under any sequence of its calls, while the clock advances.
\* The keyword arguments update_order is tried with, and the ages
\* cleanup_stale_orders is tried with (the default, and one the clock reaches).
UpdateArgs ==
    {[side |-> "buy"], [side |-> "sell"],
     [remaining_quantity |-> 0, status |-> "filled"], [note |-> "none"]}

CleanupAges == {1800, 100}

\* One add_order argument for each side.
TrackerOrderInfos ==
    {OrderInfo(side, 2000, 1, 1, "open", now, "long") : side \in {"buy", "sell"}}

TrackerAdd == \E id \in OwnIds : \E order_info \in TrackerOrderInfos : OMAddOrder(id, order_info)

\* tracker.remove_order(order_id): the counters are recomputed when the id was tracked
OMRemoveOrder(id) ==
    /\ tracker_active_orders' = remove_order(tracker_active_orders, id)
    /\ om_call' = [op |-> "remove_order", id |-> id,
                   result |-> IF id \in DOMAIN tracker_active_orders THEN "ok" ELSE "none"]
    /\ IF id \in DOMAIN tracker_active_orders
       THEN /\ buy_orders_count' = CountSide(tracker_active_orders', "buy")
            /\ sell_orders_count' = CountSide(tracker_active_orders', "sell")
       ELSE UNCHANGED <<buy_orders_count, sell_orders_count>>
    /\ UNCHANGED <<bot_vars, fn_vars, batch_vars, ledger_vars, aux_vars>>

RemoveOrder == \E id \in OwnIds : OMRemoveOrder(id)

\* An update_order that leaves the counters as they are.
UpdateWithoutRecount(id, updates) ==
    /\ tracker_active_orders' = update_order(tracker_active_orders, id, updates)
    /\ om_call' = [op |-> "update_order", id |-> id,
                   result |-> IF id \in DOMAIN tracker_active_orders THEN "ok" ELSE "none"]
    /\ UNCHANGED <<buy_orders_count, sell_orders_count>>
    /\ UNCHANGED <<bot_vars, fn_vars, batch_vars, ledger_vars, aux_vars>>

\* tracker.update_order(order_id, **updates)
OMUpdateOrder(id, updates) ==
    /\ tracker_active_orders' = update_order(tracker_active_orders, id, updates)
    /\ om_call' = [op |-> "update_order", id |-> id,
                   result |-> IF id \in DOMAIN tracker_active_orders THEN "ok" ELSE "none"]
    /\ IF id \in DOMAIN tracker_active_orders
       THEN /\ buy_orders_count' = CountSide(tracker_active_orders', "buy")
            /\ sell_orders_count' = CountSide(tracker_active_orders', "sell")
       ELSE UNCHANGED <<buy_orders_count, sell_orders_count>>
    /\ UNCHANGED <<bot_vars, fn_vars, batch_vars, ledger_vars, aux_vars>>

UpdateOrder == \E id \in OwnIds : \E updates \in UpdateArgs : OMUpdateOrder(id, updates)

\* tracker.clear_all()
ClearAll ==
    /\ tracker_active_orders' = Empty
    /\ om_call' = [op |-> "clear_all", id |-> NoId, result |-> "ok"]
    /\ buy_orders_count' = 0
    /\ sell_orders_count' = 0
    /\ UNCHANGED <<bot_vars, fn_vars, batch_vars, ledger_vars, aux_vars>>

\* tracker.cleanup_stale_orders(max_age_seconds): remove_order for every stale id
OMCleanupStaleOrders(max_age_seconds) ==
    /\ tracker_active_orders' =
          cleanup_stale_orders(tracker_active_orders, max_age_seconds, now)
    /\ om_call' = [op |-> "cleanup_stale_orders", id |-> NoId, result |-> "ok"]
    /\ IF tracker_active_orders' # tracker_active_orders
       THEN /\ buy_orders_count' = CountSide(tracker_active_orders', "buy")
            /\ sell_orders_count' = CountSide(tracker_active_orders', "sell")
       ELSE UNCHANGED <<buy_orders_count, sell_orders_count>>
    /\ UNCHANGED <<bot_vars, fn_vars, batch_vars, ledger_vars, aux_vars>>

CleanupStaleOrders == \E max_age_seconds \in CleanupAges : OMCleanupStaleOrders(max_age_seconds)

\* time.time() advances between two calls
TrackerClock ==
    /\ ticks < MaxTicks
    /\ now' = now + TickSeconds
    /\ ticks' = ticks + 1
    /\ UNCHANGED <<dry_run, shutdown_requested, pc, latest_price, best_bid_price,
                   best_ask_price, long_position, short_position,
                   active_orders, last_api_sync, cycle_time, last_ws_order_count,
                   ws_zero_count, ws_zero_consecutive, last_ws_zero_time, pending,
                   next_id, long_read, deliveries, cancelled_count, price_updated,
                   om_vars, fn_vars, batch_vars, ledger_vars, aux_vars>>

TrackerNext ==
    \/ TrackerAdd
    \/ RemoveOrder
    \/ UpdateOrder
    \/ ClearAll
    \/ CleanupStaleOrders
    \/ TrackerClock

TrackerSpec == Init /\ [][TrackerNext]_vars

\* BatchOrderManager.cancel_orders_for_side_safe on the exchange's order lists
BatchResponses ==
    {[result |-> r, orders |-> Empty] : r \in {"raise", "notdict", "error"}} \cup
    {[result |-> "ok",
      orders |-> [k \in present |->
                    [status |-> "open", is_ask |-> FALSE, price |-> 2000,
                     base_amount |-> 2, remaining |-> 1]]] :
        present \in SUBSET OwnIds}

CancelOrdersForSide(position_side, resp, raising) ==
    /\ LET r == cancel_orders_for_side_safe(dry_run, position_side, resp, raising)
       IN  om_cancel' = [position_side |-> position_side, success |-> r.success,
                         cancelled_count |-> r.cancelled_count,
                         requested |-> r.requested, completed |-> r.completed]
    /\ om_call' = [op |-> "cancel_orders_for_side_safe", id |-> NoId,
                   result |-> resp.result]
    /\ UNCHANGED <<bot_vars, tracker_active_orders, buy_orders_count, sell_orders_count,
                   fn_vars, ledger_vars, aux_vars>>

CancelSide ==
    \E position_side \in {"long", "short"} : \E resp \in BatchResponses :
       \E raising \in SUBSET OwnIds : CancelOrdersForSide(position_side, resp, raising)

BatchNext ==
    \/ AddOrder
    \/ CancelSide

BatchSpec == Init /\ [][BatchNext]_vars

\* --------------------------------------------------- the account stream
\* websocket_manager.py: AccountWebSocketManager.max_retries and base_delay, the
\* cap of _wait_before_retry, and the sleep of the grid bot's loop after an
\* exception that is not one of websockets.
ws_max_retries == 5
ws_base_delay == 2
ws_wait_cap == 10
ws_plain_wait == 5

\* The messages a session may receive: their type and, for a confirmation, its
\* channel.
StreamMessages ==
    {[type |-> t, channel |-> "none"] :
        t \in {"connected", "update/account_orders", "error", "ping", "heartbeat"}} \cup
    {[type |-> "subscribed/account_orders", channel |-> c] :
        c \in {"account_orders/1/2", "trade/1"}}

\* How a session ends other than by a break of its loop: the three except
\* clauses, or the iteration over the messages ends.
SessionExceptions == {"ConnectionClosed", "WebSocketException", "Exception"}

\* The orders callback is invoked for an update whatever was confirmed.
processed_always(subscribed) == TRUE

\* _handle_orders_update: the callback is invoked when subscribed is set.
orders_update_processed(subscribed) == subscribed

\* A wait that is one second whatever the count.
wait_of_one(impl, exception, retry_count) == 1

\* The wait before the next session when the last one ended with exception and
\* retry_count is the count after it: _wait_before_retry (the manager), the
\* sleeps of the except clauses (the bot).
wait_before_retry(impl, exception, retry_count) ==
    IF impl = "bot" /\ exception = "Exception" THEN ws_plain_wait
    ELSE Min(Power(ws_base_delay, retry_count), ws_wait_cap)

\* The loop is created: connect_and_run of a manager, or the task
\* run_account_orders_websocket of the grid bot.
StreamCreate(impl) ==
    /\ ws_pc = "new"
    /\ ws_impl' = impl
    /\ ws_pc' = "loop"
    /\ UNCHANGED <<ws_connected, ws_subscribed, ws_shutdown_requested, ws_retry_count,
                   ws_last_message_time, ws_wait_time, ws_last, ws_confirmed,
                   ws_sessions, ws_failed, ws_msgs, ws_end,
                   ws_raised, ws_ever_confirmed>>
    /\ UNCHANGED not_stream_vars

StreamStart == \E impl \in {"manager", "bot"} : StreamCreate(impl)

\* The test of the while loop, and the start of a session when it passes.
StreamLoopTest ==
    /\ ws_pc = "loop"
    /\ IF ~ws_shutdown_requested /\ ws_retry_count < ws_max_retries
       THEN /\ ws_sessions < MaxSessions
            /\ ws_pc' = "session"
            /\ ws_connected' = FALSE
            /\ ws_subscribed' = FALSE
            /\ ws_confirmed' = FALSE
            /\ ws_last' = NoMessage
            /\ ws_msgs' = 0
            /\ ws_sessions' = ws_sessions + 1
       ELSE /\ ws_pc' = "returned"
            /\ UNCHANGED <<ws_connected, ws_subscribed, ws_confirmed, ws_last, ws_msgs,
                           ws_sessions>>
    /\ UNCHANGED <<ws_impl, ws_shutdown_requested, ws_retry_count,
                   ws_last_message_time, ws_wait_time, ws_failed, ws_end,
                   ws_raised, ws_ever_confirmed>>
    /\ UNCHANGED not_stream_vars

\* A count that takes every exception for two.
count_twice(impl, exception, retry_count) ==
    IF exception THEN retry_count + 2
    ELSE IF impl = "manager" THEN 0 ELSE retry_count

\* retry_count after a session has ended, with an exception or without.
retry_count_after(impl, exception, retry_count) ==
    IF exception THEN retry_count + 1
    ELSE IF impl = "manager" THEN 0 ELSE retry_count

\* What follows the end of a session: the manager resets retry_count after a
\* session that ended without an exception and counts one that ended with one,
\* then waits if the loop is to go on; the bot counts and waits in its except
\* clauses only.
SessionEnds(how, failed) ==
    LET exception == how \in SessionExceptions
        count == retry_count_after(ws_impl, exception, ws_retry_count)
        waits == IF ws_impl = "manager"
                 THEN ~ws_shutdown_requested /\ count < ws_max_retries
                 ELSE exception /\ count < ws_max_retries
    IN  /\ ws_retry_count' = count
        /\ ws_end' = how
        /\ ws_raised' = ws_raised + (IF exception THEN 1 ELSE 0)
        /\ ws_failed' = IF failed THEN ws_failed + 1 ELSE 0
        /\ IF exception /\ ws_impl = "manager"
           THEN ws_connected' = FALSE /\ ws_subscribed' = FALSE
           ELSE UNCHANGED <<ws_connected, ws_subscribed>>
        /\ IF waits
           THEN /\ ws_pc' = "retry_wait"
                /\ ws_wait_time' =
                      wait_before_retry(ws_impl, IF exception THEN how ELSE "none", count)
           ELSE /\ ws_pc' = "loop"
                /\ ws_wait_time' = NoWait

\* One message of the session: the tests at the head of the loop body (shutdown,
\* connection timeout), then _handle_message.  late: more than 10 seconds have
\* passed since the session began; send_ok: ws.send does not raise.
StreamMessage(msg, late, send_ok) ==
    /\ ws_pc = "session"
    /\ ws_msgs < MaxMessages
    /\ IF ws_shutdown_requested
       THEN /\ SessionEnds("shutdown", FALSE)
            /\ UNCHANGED <<ws_last_message_time, ws_last, ws_confirmed, ws_msgs,
                           ws_ever_confirmed>>
       ELSE IF late /\ ~ws_connected
       THEN /\ SessionEnds("timeout", TRUE)
            /\ UNCHANGED <<ws_last_message_time, ws_last, ws_confirmed, ws_msgs,
                           ws_ever_confirmed>>
       ELSE IF msg.type = "error" /\ ws_impl = "bot"
       THEN /\ SessionEnds("server_error", TRUE)
            /\ ws_last' = [type |-> msg.type, sent |-> FALSE, processed |-> FALSE]
            /\ ws_msgs' = ws_msgs + 1
            /\ UNCHANGED <<ws_last_message_time, ws_confirmed, ws_ever_confirmed>>
       ELSE LET confirms == /\ msg.type = "subscribed/account_orders"
                            /\ msg.channel = "account_orders/1/2"
            IN  /\ ws_msgs' = ws_msgs + 1
                /\ ws_last_message_time' =
                      IF ws_impl = "manager" THEN now ELSE ws_last_message_time
                /\ ws_connected' = (ws_connected \/ msg.type = "connected")
                /\ ws_subscribed' = (ws_subscribed \/ confirms)
                /\ ws_confirmed' = (ws_confirmed \/ confirms)
                /\ ws_ever_confirmed' = (ws_ever_confirmed \/ confirms)
                /\ ws_retry_count' = IF confirms THEN 0 ELSE ws_retry_count
                /\ ws_failed' = IF confirms THEN 0 ELSE ws_failed
                /\ ws_last' =
                      [type |-> msg.type,
                       sent |-> msg.type = "connected" /\ send_ok,
                       processed |-> /\ msg.type = "update/account_orders"
                                     /\ orders_update_processed(ws_subscribed)]
                /\ UNCHANGED <<ws_pc, ws_wait_time, ws_end, ws_raised>>
    /\ UNCHANGED <<ws_impl, ws_shutdown_requested, ws_sessions>>
    /\ UNCHANGED not_stream_vars

StreamReceive ==
    \E msg \in StreamMessages : \E late, send_ok \in BOOLEAN :
       StreamMessage(msg, late, send_ok)

\* The session ends: connecting or receiving raises, or the server closes the
\* stream and the iteration ends.  A session that ends with an exception has
\* failed.
StreamSessionEnd(how) ==
    /\ ws_pc = "session"
    /\ SessionEnds(how, how \in SessionExceptions)
    /\ UNCHANGED <<ws_impl, ws_shutdown_requested, ws_last_message_time, ws_last,
                   ws_confirmed, ws_sessions, ws_msgs, ws_ever_confirmed>>
    /\ UNCHANGED not_stream_vars

StreamEnd == \E how \in SessionExceptions \cup {"closed"} : StreamSessionEnd(how)

\* The sleep before the reconnection is over.
StreamWaitDone ==
    /\ ws_pc = "retry_wait"
    /\ ws_pc' = "loop"
    /\ UNCHANGED <<ws_impl, ws_connected, ws_subscribed, ws_shutdown_requested,
                   ws_retry_count, ws_last_message_time, ws_wait_time, ws_last,
                   ws_confirmed, ws_sessions, ws_failed, ws_msgs, ws_end,
                   ws_raised, ws_ever_confirmed>>
    /\ UNCHANGED not_stream_vars

\* shutdown() of the manager; the grid bot's shutdown_requested is set.
StreamShutdown ==
    /\ ws_pc \in {"loop", "session", "retry_wait"}
    /\ ~ws_shutdown_requested
    /\ ws_shutdown_requested' = TRUE
    /\ UNCHANGED <<ws_impl, ws_pc, ws_connected, ws_subscribed,
                   ws_retry_count, ws_last_message_time, ws_wait_time, ws_last,
                   ws_confirmed, ws_sessions, ws_failed, ws_msgs, ws_end,
                   ws_raised, ws_ever_confirmed>>
    /\ UNCHANGED not_stream_vars

StreamNext ==
    \/ StreamStart
    \/ StreamLoopTest
    \/ StreamReceive
    \/ StreamEnd
    \/ StreamWaitDone
    \/ StreamShutdown

StreamSpec == Init /\ [][StreamNext]_vars

\* ------------------------------------------------------- the price feed
\* max_retries and retry_delay of PriceWebSocketManager and of
\* run_websocket_mode, the most that retry_count multiplies the delay by, the cap
\* of the wait, and the pause of run_websocket_mode in its max-retries branch.
feed_max_retries == 10
feed_retry_delay == 3
feed_delay_steps == 3
feed_wait_cap == 30
feed_pause == 60

\* How run_async may end: it returns, or it raises an error that the filter
\* takes for critical or for not critical.
FeedOutcomes == {"returned", "critical", "non_critical"}

\* wait_time of the except clause.
feed_wait(retry_count) ==
    Min(feed_retry_delay * Min(retry_count, feed_delay_steps), feed_wait_cap)

\* The loop is created: _run_with_retry of a PriceWebSocketManager, or
\* run_websocket_mode of the grid bot.
FeedCreate(impl) ==
    /\ feed_pc = "new"
    /\ feed_impl' = impl
    /\ feed_pc' = "loop"
    /\ feed_retry_count' = 0
    /\ UNCHANGED <<feed_shutdown_requested, feed_ws_connected, feed_wait_time,
                   feed_failures>>
    /\ UNCHANGED not_feed_vars

FeedStart == \E impl \in {"manager", "bot"} : FeedCreate(impl)

\* The test of the while loop and, when it passes, the statements of the try
\* block up to the call of run_async.
FeedLoopTest ==
    /\ feed_pc = "loop"
    /\ IF /\ ~feed_shutdown_requested
          /\ feed_impl = "manager" => feed_retry_count < feed_max_retries
       THEN /\ feed_pc' = "running"
            /\ feed_retry_count' = 0
            /\ feed_ws_connected' = (feed_impl = "bot" \/ feed_ws_connected)
       ELSE /\ feed_pc' = "returned"
            /\ UNCHANGED <<feed_retry_count, feed_ws_connected>>
    /\ UNCHANGED <<feed_impl, feed_shutdown_requested, feed_wait_time, feed_failures>>
    /\ UNCHANGED not_feed_vars

\* run_async ends.  When it returns the loop goes round at once; when it raises
\* the except clause counts, then waits or takes its max-retries branch.
FeedAttemptEnds(outcome) ==
    /\ feed_pc = "running"
    /\ IF outcome = "returned"
       THEN /\ feed_pc' = "loop"
            /\ feed_ws_connected' = (feed_impl = "manager" /\ feed_ws_connected)
            /\ feed_failures' = 0
            /\ UNCHANGED <<feed_retry_count, feed_wait_time>>
       ELSE LET count == IF feed_impl = "manager" \/ outcome = "critical"
                         THEN feed_retry_count + 1
                         ELSE feed_retry_count
            IN  /\ feed_failures < MaxFeedFailures
                /\ feed_failures' = feed_failures + 1
                /\ feed_ws_connected' = (feed_impl = "manager" /\ feed_ws_connected)
                /\ IF count < feed_max_retries
                   THEN /\ feed_pc' = "wait"
                        /\ feed_wait_time' = feed_wait(count)
                        /\ feed_retry_count' = count
                   ELSE IF feed_impl = "manager"
                   THEN /\ feed_pc' = "stopped"
                        /\ feed_wait_time' = NoWait
                        /\ feed_retry_count' = count
                   ELSE /\ feed_pc' = "pause"
                        /\ feed_wait_time' = feed_pause
                        /\ feed_retry_count' = 0
    /\ UNCHANGED <<feed_impl, feed_shutdown_requested>>
    /\ UNCHANGED not_feed_vars

FeedAttempt == \E outcome \in FeedOutcomes : FeedAttemptEnds(outcome)

\* The sleep of the except clause is over.
FeedWaitDone ==
    /\ feed_pc \in {"wait", "pause"}
    /\ feed_pc' = "loop"
    /\ UNCHANGED <<feed_impl, feed_shutdown_requested, feed_retry_count,
                   feed_ws_connected, feed_wait_time, feed_failures>>
    /\ UNCHANGED not_feed_vars

\* PriceWebSocketManager.shutdown, or the grid bot's shutdown.
FeedShutdown ==
    /\ feed_pc \notin {"new", "returned", "stopped"}
    /\ ~feed_shutdown_requested
    /\ feed_shutdown_requested' = TRUE
    /\ UNCHANGED <<feed_impl, feed_pc, feed_retry_count, feed_ws_connected,
                   feed_wait_time, feed_failures>>
    /\ UNCHANGED not_feed_vars

FeedNext ==
    \/ FeedStart
    \/ FeedLoopTest
    \/ FeedAttempt
    \/ FeedWaitDone
    \/ FeedShutdown

FeedSpec == Init /\ [][FeedNext]_vars

\* ------------------------------------------------ market_utils.py
\* MarketDataManager with its default constraints.  Quantities are in hundredths
\* of a base unit, prices in tenths of a quote unit, so a quote value is in
\* thousandths of a quote unit: step_size 0.1, min_base_amount 0.1,
\* min_quote_amount 10.0.
mdm_step_size == 10
mdm_min_base == 10
mdm_min_quote == 10000

\* abs()
Abs(x) == IF x < 0 THEN 0 - x ELSE x

\* format_quantity(quantity, symbol): math.floor(abs(quantity) / step_size) *
\* step_size; num / den is the quantity, in hundredths.
mdm_format_quantity(num, den) == ((Abs(num) \div den) \div mdm_step_size) * mdm_step_size

\* validate_order_amount(price, quantity, symbol): (is_valid, quantity).  A price
\* of 0 raises ZeroDivisionError in the adjustment, and the except clause
\* returns (False, abs(quantity)).
mdm_validate_order_amount(price, quantity) ==
    LET formatted == mdm_format_quantity(quantity, 1)
        at_least == IF formatted < mdm_min_base THEN mdm_min_base ELSE formatted
    IN  IF at_least * price < mdm_min_quote
        THEN IF price = 0
             THEN [is_valid |-> FALSE, quantity |-> Abs(quantity), called |-> TRUE]
             ELSE LET for_quote == mdm_format_quantity(mdm_min_quote, price)
                      tuned == IF for_quote * price < mdm_min_quote
                               THEN mdm_format_quantity(for_quote * 101, 100)
                               ELSE for_quote
                  IN  [is_valid |-> TRUE, quantity |-> tuned, called |-> TRUE]
        ELSE [is_valid |-> TRUE, quantity |-> at_least, called |-> TRUE]

\* The prices of the calls: every tenth from 0 to MaxMdmPrice, and prices at
\* which the smallest quantity is worth the minimum quote amount and more.
MdmPrices == 0..MaxMdmPrice \cup {990, 1000, 1200}

MdmValidate(price, quantity) ==
    /\ mdm_price' = price
    /\ mdm_quantity' = quantity
    /\ mdm_result' = mdm_validate_order_amount(price, quantity)
    /\ UNCHANGED <<bot_vars, om_vars, fn_vars, batch_vars, ledger_vars, stream_vars,
                   feed_vars, arb_vars>>

MdmNext ==
    \E price \in MdmPrices : \E quantity \in (0 - MaxMdmQuantity)..MaxMdmQuantity :
       MdmValidate(price, quantity)

MdmSpec == Init /\ [][MdmNext]_vars

\* ------------------------------------------ cross_exchange_arbitrage.py
\* order_timeout (seconds), max_orders_per_side, and MAKER_RATIO = 0.3 =
\* MakerRatioNum / MakerRatioDen.
arb_order_timeout == 300
max_orders_per_side == 4
MakerRatioNum == 3
MakerRatioDen == 10

\* The record of a tracked order: a taker order is tracked with status 'filled',
\* a maker order has no status.  Side, price and quantity, which no step of the
\* model reads, are left out.
ArbOrder(type, timestamp) ==
    [type |-> type, status |-> IF type = "taker" THEN "filled" ELSE "none",
     timestamp |-> timestamp]

\* execute_trading_signal: a maker order while the share of maker orders among
\* the orders placed so far is below MAKER_RATIO.
use_maker_order ==
    arb_maker_order_count * MakerRatioDen <
       MakerRatioNum * Max(1, arb_maker_order_count + arb_taker_order_count)

\* A trading signal is executed: check_trading_signals with all its conditions
\* met, execute_trading_signal, and place_maker_order or place_taker_order
\* tracking the order.  Both test the order ceiling first.  Orders are placed
\* while the clock has the time left that an order takes to reach its timeout.
ArbExecuteTradingSignal ==
    /\ arb_pc = "running"
    /\ arb_next_id <= MaxArbId
    /\ (MaxArbTicks - arb_ticks) * TickSeconds > arb_order_timeout
    /\ Cardinality(DOMAIN arb_active_orders) < max_orders_per_side * 2
    /\ arb_active_orders' =
          With(arb_active_orders, arb_next_id,
               ArbOrder(IF use_maker_order THEN "maker" ELSE "taker", arb_now))
    /\ arb_maker_order_count' = arb_maker_order_count + (IF use_maker_order THEN 1 ELSE 0)
    /\ arb_taker_order_count' = arb_taker_order_count + (IF use_maker_order THEN 0 ELSE 1)
    /\ arb_next_id' = arb_next_id + 1
    /\ UNCHANGED <<arb_shutdown_requested, arb_pc, arb_now, arb_ticks>>
    /\ UNCHANGED not_arb_vars

\* The sleep of the main loop.
ArbTick ==
    /\ arb_pc = "running"
    /\ arb_ticks < MaxArbTicks
    /\ arb_ticks' = arb_ticks + 1
    /\ arb_now' = arb_now + TickSeconds
    /\ UNCHANGED <<arb_active_orders, arb_maker_order_count, arb_taker_order_count,
                   arb_shutdown_requested, arb_pc, arb_next_id>>
    /\ UNCHANGED not_arb_vars

\* check_order_timeouts, called by update_lighter_price in every round of the
\* main loop: orders with status 'filled' are skipped, the others are cancelled
\* and dropped once they are older than order_timeout.
TimedOut ==
    {k \in DOMAIN arb_active_orders :
        /\ arb_active_orders[k].status # "filled"
        /\ arb_now - arb_active_orders[k].timestamp > arb_order_timeout}

ArbCheckOrderTimeouts ==
    /\ arb_pc = "running"
    /\ ~arb_shutdown_requested
    /\ arb_active_orders' = Without(arb_active_orders, TimedOut)
    /\ UNCHANGED <<arb_maker_order_count, arb_taker_order_count, arb_shutdown_requested,
                   arb_pc, arb_next_id, arb_now, arb_ticks>>
    /\ UNCHANGED not_arb_vars

\* The n oldest orders: sorted by timestamp, equal ones in dict order.
RECURSIVE ArbOldest(_, _)
ArbOldest(S, n) ==
    IF n <= 0 \/ S = {} THEN {}
    ELSE LET k == CHOOSE j \in S : \A i \in S :
                     \/ arb_active_orders[j].timestamp < arb_active_orders[i].timestamp
                     \/ /\ arb_active_orders[j].timestamp = arb_active_orders[i].timestamp
                        /\ j <= i
         IN  {k} \cup ArbOldest(S \ {k}, n - 1)

\* cancel_excess_orders, which check_inventory_risk calls when the position is
\* above the inventory threshold: all but max_orders_per_side orders go, the
\* oldest first.
ArbCancelExcessOrders ==
    /\ arb_pc = "running"
    /\ ~arb_shutdown_requested
    /\ Cardinality(DOMAIN arb_active_orders) > max_orders_per_side
    /\ arb_active_orders' =
          Without(arb_active_orders,
                  ArbOldest(DOMAIN arb_active_orders,
                            Cardinality(DOMAIN arb_active_orders) - max_orders_per_side))
    /\ UNCHANGED <<arb_maker_order_count, arb_taker_order_count, arb_shutdown_requested,
                   arb_pc, arb_next_id, arb_now, arb_ticks>>
    /\ UNCHANGED not_arb_vars

\* The signal handler, or the daily loss limit in monitor_positions.
ArbRequestShutdown ==
    /\ arb_pc = "running"
    /\ ~arb_shutdown_requested
    /\ arb_shutdown_requested' = TRUE
    /\ UNCHANGED <<arb_active_orders, arb_maker_order_count, arb_taker_order_count,
                   arb_pc, arb_next_id, arb_now, arb_ticks>>
    /\ UNCHANGED not_arb_vars

\* The main loop ends and graceful_shutdown runs: the tracking is cleared unless
\* cancel_all_orders raises.
ArbGracefulShutdown(cancel_ok) ==
    /\ arb_pc = "running"
    /\ arb_shutdown_requested
    /\ arb_pc' = "stopped"
    /\ arb_active_orders' = IF cancel_ok THEN Empty ELSE arb_active_orders
    /\ UNCHANGED <<arb_maker_order_count, arb_taker_order_count, arb_shutdown_requested,
                   arb_next_id, arb_now, arb_ticks>>
    /\ UNCHANGED not_arb_vars

ArbShutdown == \E cancel_ok \in BOOLEAN : ArbGracefulShutdown(cancel_ok)

ArbNext ==
    \/ ArbExecuteTradingSignal
    \/ ArbTick
    \/ ArbCheckOrderTimeouts
    \/ ArbCancelExcessOrders
    \/ ArbRequestShutdown
    \/ ArbShutdown

ArbSpec == Init /\ [][ArbNext]_vars

\* The main loop goes round while the bot runs: the clock advances and
\* update_lighter_price runs check_order_timeouts again and again.
ArbFairSpec == ArbSpec /\ WF_vars(ArbTick) /\ WF_vars(ArbCheckOrderTimeouts)

\* ----------------------------------------------------------------- claims
\* The tracked ids a step removes, and the ids it adds.
Removed == Tracked \ DOMAIN active_orders'
Added == (DOMAIN active_orders') \ Tracked

\* The step is a WebSocket pass over the snapshot of data, a message that carries
\* no lifecycle event; the step is a REST sync that got the order list of resp.
SnapshotPass(data) == data.events = <<>> /\ handle_account_orders_update(data)
ListSync(resp) == resp.result = "ok" /\ SyncReturnWith(resp)

\* Only handle_account_orders_update counts a delivery, and only SyncReturnWith
\* leaves the await of a sync: the step is a WebSocket pass, is a REST sync.
WsStep == deliveries' # deliveries
RestStep == pc \in {"setup_sync_await", "sync_await"} /\ pc' # pc

BuyLong(o) == o.side = "buy" /\ o.position_type = "long"

\* C1: in one reconciliation pass (a REST sync, or a WebSocket pass) the orders
\* removed from the Tracker are exactly the tracked ids that are not among the
\* exchange-active ids of the snapshot.
C1_ReconciliationConservation ==
    [][ /\ \A data \in WsMessages :
             SnapshotPass(data) => Removed = Tracked \ ActiveIds(data.orders)
        /\ \A resp \in RestResponses :
             ListSync(resp) => Removed = Tracked \ ActiveIds(resp.orders) ]_vars

\* C2: a REST sync whose fetch fails (the call raises, the response is no dict,
\* or it is an error reply without an order list) leaves the Tracker as it was.
C2_FetchFailureKeepsTracker ==
    [][ \A resp \in RestResponses :
          (resp.result \in {"raise", "notdict", "error"} /\ SyncReturnWith(resp))
             => active_orders' = active_orders ]_vars

\* An OrderTracker that holds the orders the bot tracks.
SameTracker ==
    [k \in Tracked |->
        OrderInfo(active_orders[k].side, active_orders[k].price,
                  active_orders[k].quantity, active_orders[k].quantity, "open",
                  active_orders[k].timestamp, active_orders[k].position_type)]

\* C3 as the specification states it: no reconciliation pass adds an order, so
\* the ids tracked after a pass are among those tracked before it.
C3_NeverAdopts ==
    [][ ((\E data \in WsMessages : handle_account_orders_update(data))
         \/ (\E resp \in RestResponses : SyncReturnWith(resp)))
            => DOMAIN active_orders' \subseteq Tracked ]_vars

\* C3 as the code has it: a WebSocket pass adds no order; a REST sync (the bot's,
\* and the OrderSyncManager's on a Tracker with the same orders) adds exchange-active
\* orders only, and after a sync that got an order list every exchange-active
\* order of the list is tracked.
C3_AdoptsExchangeActive ==
    [][ /\ WsStep => Added = {}
        /\ RestStep => \A resp \in RestResponses :
             /\ SyncReturnWith(resp) =>
                   /\ Added \subseteq ActiveIds(resp.orders)
                   /\ resp.result = "ok" =>
                         ActiveIds(resp.orders) \subseteq DOMAIN active_orders'
             /\ LET after == DOMAIN OrderSyncManager_sync_orders_from_api(
                                       SameTracker, resp, now)
                 IN  /\ after \ Tracked \subseteq ActiveIds(resp.orders)
                     /\ resp.result = "ok" => ActiveIds(resp.orders) \subseteq after
      ]_vars

\* C3: a sync has just adopted the order this process never placed.
C3_Witness == ForeignId \in Tracked /\ pc \in {"wait_price", "adjust"}

\* C4: when one tracked buy/long order of quantity q is removed because the
\* snapshot of a pass (WebSocket or REST) no longer has it, long_position grows
\* by exactly q in that step.
C4_PositionUpdateOnVanish ==
    [][ /\ \A data \in WsMessages : \A k \in Tracked :
             (/\ SnapshotPass(data)
              /\ k \notin DOMAIN data.orders
              /\ Removed = {k}
              /\ BuyLong(active_orders[k]))
                => long_position' = long_position + active_orders[k].quantity
        /\ \A resp \in RestResponses : \A k \in Tracked :
             (/\ ListSync(resp)
              /\ k \notin DOMAIN resp.orders
              /\ Removed = {k}
              /\ BuyLong(active_orders[k]))
                => long_position' = long_position + active_orders[k].quantity ]_vars

\* C5: a pass that finds no active order on the exchange while orders are
\* tracked does not empty the Tracker, unless the empty reading has been
\* counted up to the long threshold.
C5_EscalatingCleanup ==
    [][ /\ \A data \in WsMessages :
             (/\ SnapshotPass(data)
              /\ ActiveIds(data.orders) = {}
              /\ Tracked # {}
              /\ ws_zero_consecutive + 1 < LongThreshold)
                => DOMAIN active_orders' # {}
        /\ \A resp \in RestResponses :
             (/\ ListSync(resp)
              /\ ActiveIds(resp.orders) = {}
              /\ Tracked # {})
                => DOMAIN active_orders' # {} ]_vars

\* C6 as the specification states it: a cycle starts its grid decision only out of
\* a reconciliation against the exchange's order list that has just returned.
C6_ReconcileBeforeDecision ==
    [][ (pc' = "adjust" /\ pc # "adjust") => RestStep ]_vars

\* C6 as the code has it: every cycle runs force_cleanup_stale_orders first (when
\* every record has a timestamp, no order older than ForceStaleAge is left); the
\* REST sync is awaited only in live mode and only when more than SyncInterval
\* seconds have passed since the last one, and then the decision starts out of
\* its return; otherwise the decision starts without any exchange data.
C6_CleanupBeforeDecision ==
    [][ /\ (pc = "loop" /\ pc' # "loop" /\ ~shutdown_requested) =>
              /\ HasAllTimestamps(active_orders) =>
                    \A k \in DOMAIN active_orders' :
                       now - active_orders'[k].timestamp <= ForceStaleAge
              /\ pc' = (IF ~dry_run /\ now - last_api_sync > SyncInterval
                        THEN "sync_await" ELSE "adjust")
        /\ (pc' = "adjust" /\ pc # "adjust") => pc \in {"loop", "sync_await"}
        /\ (pc = "sync_await" /\ pc' # pc) => pc' = "adjust" ]_vars

\* C6: a live cycle is about to decide with orders tracked and without a sync: the
\* last one is some time ago and not yet due again.
C6_Witness ==
    /\ pc = "adjust" /\ ~dry_run /\ Tracked # {}
    /\ last_api_sync < now /\ now - last_api_sync <= SyncInterval

\* C7: when the short side of a decision is about to read latest_price and the
\* long side of the same decision has read it, the price is still the same.
C7_SamePriceBothSides ==
    (/\ pc = "short_side"
     /\ long_read # 0
     /\ Cardinality({k \in Tracked :
                        /\ active_orders[k].position_type = "short"
                        /\ active_orders[k].side = short_side_order(short_position)})
           < SideOrderLimit)
       => latest_price = long_read

\* What a step of the grid logic submits to the gateway or, in a dry run, tracks.
SideStep == pc \in {"long_side", "short_side"}
Submitted ==
    (IF pending' # NoOrder THEN {[side |-> pending'.side, price |-> pending'.price,
                                  position_type |-> pending'.position_type]}
     ELSE {}) \cup
    {[side |-> active_orders'[k].side, price |-> active_orders'[k].price,
      position_type |-> active_orders'[k].position_type] :
        k \in {j \in DOMAIN active_orders' :
                 j \notin Tracked \/ active_orders'[j] # active_orders[j]}}

\* The tracked orders of one position_type and side, counted here anew.
CountOf(position_type, side) ==
    Cardinality({k \in Tracked : /\ active_orders[k].position_type = position_type
                                 /\ active_orders[k].side = side})

AtCeiling == Cardinality(Tracked) >= max_orders

C10_BuyBelowSellAbove ==
    [][ SideStep => \A o \in Submitted :
                      /\ o.side = "buy" => o.price < latest_price
                      /\ o.side = "sell" => o.price > latest_price ]_vars

\* C10 as the code has it: the price of an order is p * (1 - s) for a buy and
\* p * (1 + s) for a sell, rounded to the nearest tick; so a buy is never above
\* p and a sell never below it, and they differ from p once p * s exceeds half
\* a tick.
C10_QuantizedGridPrice ==
    [][ SideStep => \A o \in Submitted :
          LET exact == IF o.side = "buy" THEN latest_price * (GridDen - GridNum)
                       ELSE latest_price * (GridDen + GridNum)
              diff == o.price * GridDen - exact
          IN  /\ o.price % 2 = 0
              /\ diff <= GridDen /\ -diff <= GridDen
              /\ o.side = "buy" => o.price <= latest_price
              /\ o.side = "sell" => o.price >= latest_price
              /\ latest_price * GridNum > GridDen => o.price # latest_price ]_vars

\* C10: a buy has been submitted at the very price it was computed from.
C10_Witness ==
    /\ pc = "long_await" /\ pending.side = "buy"
    /\ long_read = latest_price /\ pending.price = latest_price

\* C11: long_position and short_position are never negative, whatever vanish
\* updates, lifecycle fills and dry-run fills have happened; an exit larger than
\* the position held leaves the position at 0.
C11_PositionsNonNegative == long_position >= 0 /\ short_position >= 0

\* C11: both sides hold a position at once: neither constrains the other.
C11_Witness == long_position > 0 /\ short_position > 0

\* C12: long_position and short_position change only in fill handling: in a pass
\* of the account-orders handler (vanished orders, lifecycle fills) or in the
\* simulated fills of a dry run, which remove the filled order.  Placing an
\* order, cancelling all orders, a REST sync, the stale-order cleanup and the
\* order-count validation leave both as they were.
C12_PositionsFrame ==
    [][ (long_position' # long_position \/ short_position' # short_position)
           => \/ WsStep
              \/ pc = "adjust" /\ dry_run /\ Removed # {} ]_vars

\* C12: a live bot has placed orders, synced and cancelled all orders on its way
\* out, and the position it built is still there.
C12_Witness ==
    /\ pc = "stopped" /\ ~dry_run /\ long_position > 0 /\ last_api_sync > 0

C14_FailedPlacementNoOp ==
    [][ \A result \in PlaceResults \ {"ok"} :
          PlaceReturnWith(result) =>
             /\ active_orders' = active_orders
             /\ long_position' = long_position
             /\ short_position' = short_position
             /\ pc' = (IF pc = "long_await" THEN "short_side" ELSE "cycle_end")
             /\ shutdown_requested' = shutdown_requested ]_vars

\* C14: the long side's placement of a live cycle has failed, nothing has ever
\* been tracked, and the cycle goes on with the short side.
C14_Witness ==
    /\ pc = "short_side" /\ ~dry_run /\ long_read # 0
    /\ Tracked = {} /\ next_id = 1 /\ pending = NoOrder

\* The control task starts to await a gateway call other than the cancel-all.
NewGatewayCall == pc' # pc /\ pc' \in {"sync_await", "long_await", "short_await"}

\* C15 as the specification states it, last part: once shutdown is requested the
\* control task waits on the exchange for nothing but the cancel-all call.
C15_OnlyCancelAfterShutdown ==
    [][ shutdown_requested => ~NewGatewayCall ]_vars

\* C15 as the code has it: once shutdown is requested, run() comes to its end,
\* provided every gateway call ends.  No new iteration starts, but the iteration
\* under way is carried through, its gateway calls included; run() ends only out
\* of cancel_all_orders, which has emptied the Tracker.
C15_ShutdownTerminates ==
    /\ shutdown_requested ~> pc = "stopped"
    /\ [][ (shutdown_requested /\ pc = "loop" /\ pc' # pc)
             => pc' \in {"cancel_await", "stopped"} ]_vars
    /\ [][ (pc' = "stopped" /\ pc # "stopped")
             => /\ shutdown_requested'
                /\ active_orders' = Empty
                /\ pc = "cancel_await" \/ dry_run ]_vars

\* C15: a live bot that had placed orders was asked to stop and has stopped.
C15_Witness ==
    /\ pc = "stopped" /\ shutdown_requested /\ ~dry_run /\ next_id > 1

\* C16: in a dry run no order is submitted to or cancelled at the exchange: the
\* control task never awaits limit_order, cancel_all_orders or the order fetch of
\* a sync, no order is pending at the gateway, and the BatchOrderManager cancel
\* operations with the same flag issue no gateway call at all.
C16_DryRunNeverCallsGateway ==
    dry_run =>
       /\ pc \notin {"long_await", "short_await", "cancel_await", "sync_await",
                     "setup_sync_await"}
       /\ pending = NoOrder
       /\ cancel_all_orders_safe_calls(dry_run) = <<>>
       /\ \A resp \in RestResponses :
             cancel_orders_for_side_safe_calls(dry_run, resp) = <<>>

\* C16: a dry run has placed orders and cancelled them all on its way out.
C16_Witness == dry_run /\ pc = "stopped" /\ next_id > 1

\* C17: add_order with an id that is tracked leaves the number of tracked orders
\* as it was, with a new id it grows by one; either way the record stored under
\* the id is the one just added and no other record changes.
C17_IdempotentAdd ==
    [][ \A id \in OwnIds : \A order_info \in OrderInfos :
          OMAddOrder(id, order_info) =>
             /\ Cardinality(DOMAIN tracker_active_orders') =
                   Cardinality(DOMAIN tracker_active_orders) +
                   (IF id \in DOMAIN tracker_active_orders THEN 0 ELSE 1)
             /\ tracker_active_orders'[id] = order_info
             /\ \A k \in DOMAIN tracker_active_orders \ {id} :
                   /\ k \in DOMAIN tracker_active_orders'
                   /\ tracker_active_orders'[k] = tracker_active_orders[k] ]_vars

\* C17: every id is tracked, so that any further add is an add of a tracked id,
\* and the records differ from one another.
C17_Witness ==
    /\ DOMAIN tracker_active_orders = OwnIds
    /\ \E j, k \in OwnIds : tracker_active_orders[j] # tracker_active_orders[k]

\* C18: after a sync of the OrderSyncManager that got an order list, the orders
\* tracked are those of the list whose status is one of active, open, pending,
\* live and whose remaining amount is above 0, and no other.
C18_TrackedAreExchangeActive ==
    [][ \A resp \in OMResponses :
          (resp.result = "ok" /\ OMSync(resp)) =>
             DOMAIN tracker_active_orders' =
                {k \in DOMAIN resp.orders :
                    /\ resp.orders[k].status \in {"active", "open", "pending", "live"}
                    /\ resp.orders[k].remaining > 0} ]_vars

\* C18: a sync has adopted an order and none of the orders tracked is one that
\* add_order put there.
C18_Witness ==
    /\ tracker_active_orders # Empty
    /\ \A k \in DOMAIN tracker_active_orders :
          tracker_active_orders[k].position_type = "none"

\* C19: a cycle of the control loop begins its work (cleanup, sync, grid
\* decision) only if the price feed has delivered a price since the last grid
\* decision ended; without one the price has moved by nothing, which is below
\* every threshold.
C19_EvaluatesOnlyAfterPriceUpdate ==
    [][ (pc = "loop" /\ pc' \in {"sync_await", "adjust"}) => price_updated ]_vars

\* C20: no order that is tracked or handed to the gateway has a price of zero
\* or below, or a quantity of zero: a placement at such a price is abandoned, in
\* a dry run and in live mode.
C20_NoOrderAtNonPositivePrice ==
    /\ \A k \in Tracked : active_orders[k].price > 0 /\ active_orders[k].quantity > 0
    /\ pending # NoOrder => pending.price > 0 /\ pending.quantity > 0

\* C21: for a price above 0 calculate_order_quantity returns a whole number of
\* lot steps, at least one, whose notional is min_quote_amount or more: it is
\* order_amount / price rounded down (one step at least) when that quantity's
\* notional reaches min_quote_amount, and min_quote_amount / price rounded up
\* otherwise.  For a price of 0 or below it returns 0.
C21_QuantitySizing ==
    calc_quantity # NoQuantity =>
        IF calc_price <= 0 THEN calc_quantity = 0
        ELSE LET A == Scaled(order_amount)
                 M == Scaled(min_quote_amount)
                 q == calc_quantity
                 down == IF A < calc_price THEN 1 ELSE A \div calc_price
             IN  /\ q >= 1
                 /\ q * calc_price >= M
                 /\ down * calc_price <= A \/ down = 1
                 /\ (down + 1) * calc_price > A
                 /\ IF down * calc_price >= M THEN q = down
                    ELSE (q - 1) * calc_price < M

\* C21: at a price of 3.00 the quantity rounded down, 3, is worth 9.00, below the
\* minimum of 10; 4 was returned.
C21_Witness == calc_price = 600 * GridDen /\ calc_quantity = 4

\* C22: a placement that succeeds (in a dry run the step of the grid logic that
\* tracks an order, in live mode the return of limit_order with a result) adds
\* one new id to the Tracker and leaves the record of every order tracked
\* before as it was.
C22_PlacementAddsNewKey ==
    [][ ((SideStep /\ active_orders' # active_orders) \/ PlaceReturnWith("ok")) =>
           /\ Cardinality(DOMAIN active_orders') = Cardinality(Tracked) + 1
           /\ \A k \in Tracked : /\ k \in DOMAIN active_orders'
                                 /\ active_orders'[k] = active_orders[k] ]_vars

\* The quantity of the tracked orders of one side.
QuantityOf(side) ==
    TotalQuantity(active_orders, {k \in Tracked : active_orders[k].side = side})

\* C23: every order a REST sync has written to the Tracker is a buy typed long,
\* or short when short_position is above 0, or a sell typed short, or long when
\* long_position is above 0; and the order counters adjust_grid_strategy
\* computes count the buys as short buys when short_position is above 0 and as
\* long buys otherwise, the sells as long sells when long_position is above 0
\* and as short sells otherwise.
C23_PositionTypeInference ==
    [][ /\ (RestStep /\ active_orders' # active_orders) =>
              \A k \in DOMAIN active_orders' :
                 active_orders'[k].position_type =
                    IF active_orders'[k].side = "buy"
                    THEN (IF short_position > 0 THEN "short" ELSE "long")
                    ELSE (IF long_position > 0 THEN "long" ELSE "short")
        /\ pc = "adjust" =>
              check_orders_status(active_orders, long_position, short_position) =
                 [buy_long_orders |-> IF short_position > 0 THEN 0 ELSE QuantityOf("buy"),
                  buy_short_orders |-> IF short_position > 0 THEN QuantityOf("buy") ELSE 0,
                  sell_long_orders |-> IF long_position > 0 THEN QuantityOf("sell") ELSE 0,
                  sell_short_orders |-> IF long_position > 0 THEN 0 ELSE QuantityOf("sell")]
      ]_vars

\* C23: a REST sync during a short position has typed a buy as short, and the
\* next grid decision is about to count it.
C23_Witness ==
    /\ pc = "adjust" /\ short_position > 0
    /\ \E k \in Tracked : /\ active_orders[k].side = "buy"
                           /\ active_orders[k].position_type = "short"
                           /\ active_orders[k].timestamp = NoTimestamp

\* The order actions of the bot that await their completion: a limit_order call
\* (its order is pending) and a cancel_all_orders call.
InFlight ==
    (IF pending # NoOrder THEN 1 ELSE 0) + (IF pc = "cancel_await" THEN 1 ELSE 0)

\* C24: at most one order action of the bot is in flight; one is started only
\* when none is in flight, and by the control task only (out of its grid logic
\* or the end of its loop), never by the price feed or the account-orders
\* handler; the order in flight is not replaced by another.
C24_OneOrderActionInFlight ==
    [][ /\ InFlight <= 1 /\ InFlight' <= 1
        /\ InFlight' > InFlight =>
              /\ InFlight = 0
              /\ pc \in {"long_side", "short_side", "loop", "wait_price"}
              /\ deliveries' = deliveries /\ latest_price' = latest_price
        /\ (pending # NoOrder /\ pending' # NoOrder) => pending' = pending ]_vars

\* C24: a placement is in flight and the account-orders handler and the price
\* feed have both run meanwhile.
C24_Witness ==
    /\ pc = "short_await" /\ pending # NoOrder
    /\ deliveries > 0 /\ latest_price # long_read /\ long_read # 0

\* The long side holds a position, the short side too, and the grid logic is at
\* its long side: the hedge state of the specification, whatever the threshold.
LongHedgeStep == pc = "long_side" /\ long_position > 0 /\ short_position > 0

AdjustStep == pc = "adjust" /\ pc' # pc

C27_CancelsOnlyGivenSide ==
    om_call.op = "cancel_orders_for_side_safe" =>
        /\ \A id \in om_cancel.requested \cap DOMAIN tracker_active_orders :
              tracker_active_orders[id].position_type = om_cancel.position_side
        /\ om_cancel.cancelled_count = Cardinality(om_cancel.completed)

\* What place_order adds in a step: an order handed to the gateway, or a key of
\* the Tracker that was not there.
Placing ==
    /\ pc \in {"long_side", "short_side", "long_await", "short_await"}
    /\ \/ pending = NoOrder /\ pending' # NoOrder
       \/ DOMAIN active_orders' \ Tracked # {}

C29_NoDoubleAccounting ==
    \A k \in DOMAIN applied : applied[k] # "again"

\* C30: every record of the Tracker has a timestamp, whichever path wrote it,
\* and a call of adjust_grid_strategy that starts with fewer than max_orders
\* orders tracked goes on to its grid logic.
C30_EveryRecordHasTimestamp ==
    [][/\ HasAllTimestamps(active_orders')
       /\ (AdjustStep /\ ~AtCeiling) => pc' = "long_side"
      ]_vars

\* C31: a REST sync leaves the side, the price, the position_type and the
\* timestamp of every order that stays tracked as they were.
C31_SyncKeepsIdentity ==
    [][RestStep =>
          \A k \in Tracked \cap DOMAIN active_orders' :
             /\ active_orders'[k].side = active_orders[k].side
             /\ active_orders'[k].price = active_orders[k].price
             /\ active_orders'[k].position_type = active_orders[k].position_type
             /\ active_orders'[k].timestamp = active_orders[k].timestamp
      ]_vars

\* C32: get_order_counts of the OrderTracker reports the number of tracked orders
\* with side buy as buy_orders and the number with side sell as sell_orders
\* (total_active is len(active_orders) itself).
C32_CountersMatchTracker ==
    /\ buy_orders_count = CountSide(tracker_active_orders, "buy")
    /\ sell_orders_count = CountSide(tracker_active_orders, "sell")

\* C32: update_order has just turned the side of a tracked order while another
\* order is tracked.
C32_Witness ==
    /\ om_call.op = "update_order" /\ om_call.result = "ok"
    /\ DOMAIN tracker_active_orders = OwnIds
    /\ buy_orders_count = 1 /\ sell_orders_count = 1
    /\ tracker_active_orders[om_call.id].status = "open"

EndsCleanly == ws_pc = "session" /\ ws_pc' # "session" /\ ws_end' \notin SessionExceptions

\* C34 as stated: retry_count of the manager never exceeds max_retries; it goes
\* back to 0 only at a confirmation or at the end of a session that raised
\* nothing; no session starts once shutdown() was called; and a connect_and_run
\* all of whose sessions ended with an exception has returned after exactly
\* max_retries sessions.
C34_ReturnsAfterMaxRetries ==
    [][ws_impl = "manager" =>
          /\ ws_retry_count' <= ws_max_retries
          /\ (ws_retry_count # 0 /\ ws_retry_count' = 0) =>
                 (ws_subscribed' /\ ~ws_subscribed) \/ EndsCleanly
          /\ ws_shutdown_requested => ws_sessions' = ws_sessions
          /\ (/\ ws_pc' = "returned" /\ ~ws_shutdown_requested'
              /\ ws_raised' = ws_sessions') => ws_sessions' = ws_max_retries
      ]_vars

\* C34 with the last part for a run in which no confirmation arrived: a
\* connect_and_run all of whose sessions ended with an exception, none of them
\* confirmed, has returned after exactly max_retries sessions.
C34_ReturnsAfterUnconfirmedRetries ==
    [][ws_impl = "manager" =>
          /\ ws_retry_count' <= ws_max_retries
          /\ (ws_retry_count # 0 /\ ws_retry_count' = 0) =>
                 (ws_subscribed' /\ ~ws_subscribed) \/ EndsCleanly
          /\ ws_shutdown_requested => ws_sessions' = ws_sessions
          /\ (/\ ws_pc' = "returned" /\ ~ws_shutdown_requested'
              /\ ws_raised' = ws_sessions' /\ ~ws_ever_confirmed') =>
                 ws_sessions' = ws_max_retries
      ]_vars

\* C34: connect_and_run has returned after max_retries sessions that all raised.
C34_Witness ==
    /\ ws_impl = "manager"
    /\ ws_pc = "returned"
    /\ ~ws_shutdown_requested
    /\ ws_raised = ws_max_retries
    /\ ws_sessions = ws_max_retries
    /\ ~ws_ever_confirmed

\* The step ends a session after which the loop connects again.
EndsToReconnect ==
    /\ ws_pc = "session"
    /\ ws_pc' \in {"loop", "retry_wait"}
    /\ ~ws_shutdown_requested
    /\ ws_retry_count' < ws_max_retries

\* C35: whenever a session of the account-orders stream has ended and the loop
\* connects again, a wait of at most 10 seconds comes first, longer than the
\* wait before (or at the cap) when two sessions in a row failed, and a failed
\* session adds one to the retry count; a session ended by an 'error' message
\* or by the connection timeout is a failed session.
C35_BackoffBeforeReconnect ==
    [][EndsToReconnect =>
          /\ ws_pc' = "retry_wait"
          /\ ws_wait_time' \in 1..ws_wait_cap
          /\ ws_failed' > 1 => ws_wait_time' > ws_wait_time \/ ws_wait_time' = ws_wait_cap
          /\ ws_failed' = ws_failed + 1 => ws_retry_count' = ws_retry_count + 1
      ]_vars

\* C36: in both price-feed loops, when connection attempts have failed
\* max_retries times in a row the max-retries branch is taken (the manager
\* stops, the grid bot pauses 60 seconds and starts counting anew), and the wait
\* after the second failure in a row is longer than the wait after the first.
C36_FeedRetryLimit ==
    [][(feed_pc = "running" /\ feed_failures' = feed_failures + 1) =>
          /\ feed_failures' = feed_max_retries =>
                 /\ feed_impl = "manager" => feed_pc' = "stopped"
                 /\ feed_impl = "bot" =>
                        /\ feed_pc' = "pause"
                        /\ feed_wait_time' = feed_pause
                        /\ feed_retry_count' = 0
          /\ (feed_failures' = 2 /\ feed_pc' = "wait") => feed_wait_time' > feed_wait_time
      ]_vars

\* The price has crossed the order o.
Crossed(o) ==
    \/ o.side = "buy" /\ latest_price <= o.price
    \/ o.side = "sell" /\ latest_price >= o.price

\* The orders a step of adjust_grid_strategy removes that have not expired.
SimFilled == Removed \ OlderThan(active_orders, now, ExpireAge)

\* C37: in a dry run, an order that adjust_grid_strategy removes before its
\* expiry was crossed by the price and is more than 5 seconds old; when one
\* order is filled, one position changes by its quantity (buy/long +q,
\* sell/long -q, sell/short +q, buy/short -q, not below 0) and the other stays;
\* positions change only when an order is filled; and in live mode the step
\* fills nothing and leaves both positions as they were.
C37_DryRunFillRule ==
    [][AdjustStep =>
          /\ dry_run =>
                /\ \A k \in SimFilled :
                      /\ Crossed(active_orders[k])
                      /\ now - active_orders[k].timestamp > FillMinAge
                /\ \A k \in Tracked : SimFilled = {k} =>
                      LET o == active_orders[k]
                          q == o.quantity
                      IN  /\ (o.side = "buy" /\ o.position_type = "long") =>
                                 /\ long_position' = long_position + q
                                 /\ short_position' = short_position
                          /\ (o.side = "sell" /\ o.position_type = "long") =>
                                 /\ long_position' = Max(0, long_position - q)
                                 /\ short_position' = short_position
                          /\ (o.side = "sell" /\ o.position_type = "short") =>
                                 /\ short_position' = short_position + q
                                 /\ long_position' = long_position
                          /\ (o.side = "buy" /\ o.position_type = "short") =>
                                 /\ short_position' = Max(0, short_position - q)
                                 /\ long_position' = long_position
                /\ (long_position' # long_position \/ short_position' # short_position)
                      => SimFilled # {}
          /\ ~dry_run =>
                /\ SimFilled = {}
                /\ long_position' = long_position
                /\ short_position' = short_position
      ]_vars

\* C37: a dry run right after a cycle's simulation, holding a long and a short
\* position, which only simulated fills of a buy and of a sell can have built.
C37_Witness ==
    /\ dry_run
    /\ pc = "long_side"
    /\ long_position > 0
    /\ short_position > 0

\* The tracked orders of one position side after the step.
OwnOrders(position_type) ==
    {k \in DOMAIN active_orders' : active_orders'[k].position_type = position_type}

\* The step of a side of the grid logic places an order: it tracks it (dry run)
\* or hands it to the exchange.
SidePlaces == active_orders' # active_orders \/ pending' # pending

\* The order that step places.
SideOrder ==
    IF pending' # pending THEN pending'
    ELSE active_orders'[CHOOSE k \in DOMAIN active_orders' :
                           k \notin Tracked \/ active_orders'[k] # active_orders[k]]

\* The order a side is to place by its own state: its position gives the side
\* of the order, the price gives its price and quantity.
OwnDecision(position_type, position) ==
    LET side == IF (position = 0) = (position_type = "long") THEN "buy" ELSE "sell"
        num == grid_price(side, latest_price)
        quantity == calculate_order_quantity(num)
        v == validate_order_amount(format_price(num), quantity)
    IN  [due |-> CountOf(position_type, side) < SideOrderLimit,
         side |-> side,
         price |-> format_price(num),
         quantity |-> IF v.is_valid THEN quantity ELSE v.quantity]

\* The step takes the decision d for the side position_type.
Decides(position_type, d) ==
    /\ SidePlaces = d.due
    /\ SidePlaces =>
          /\ SideOrder.side = d.side
          /\ SideOrder.position_type = position_type
          /\ SideOrder.price = d.price
          /\ SideOrder.quantity = d.quantity

\* C38: what a cycle does for one side follows from that side's position, the
\* price and that side's tracked orders alone.  A cycle in which nothing of a
\* side's own orders stands in the way (each has its timestamp, they are fewer
\* than max_orders) reaches the grid logic; there the long side places an order
\* exactly when it has fewer than two of the kind its position asks for, at the
\* price and quantity the latest price gives, and so does the short side.
C38_SidesIndependent ==
    [][/\ AdjustStep =>
             \A position_type \in {"long", "short"} :
                (/\ \A k \in OwnOrders(position_type) :
                       active_orders'[k].timestamp # NoTimestamp
                 /\ Cardinality(OwnOrders(position_type)) < max_orders)
                   => pc' = "long_side"
       /\ (pc = "long_side" /\ pc' # pc) =>
             Decides("long", OwnDecision("long", long_position))
       /\ (pc = "short_side" /\ pc' # pc) =>
             Decides("short", OwnDecision("short", short_position))
      ]_vars

\* C39: whenever MarketDataManager.validate_order_amount reports a valid order
\* for a price above 0, the quantity it returns is a whole multiple of the step
\* size, is at least min_base_amount, and is worth at least min_quote_amount at
\* that price, also when the quantity was adjusted upward.
C39_ValidatedQuantityMeetsMinimums ==
    (mdm_result.called /\ mdm_result.is_valid /\ mdm_price > 0) =>
       /\ mdm_result.quantity % mdm_step_size = 0
       /\ mdm_result.quantity >= mdm_min_base
       /\ mdm_result.quantity * mdm_price >= mdm_min_quote

\* C40: the arbitrage bot never tracks more than 2 * max_orders_per_side
\* orders, and while it runs every order it tracks, maker or taker, is
\* eventually no longer tracked, so that the bot is not at its order ceiling
\* for ever.
C40_OrdersLeaveTheTracker ==
    /\ [](Cardinality(DOMAIN arb_active_orders) <= 2 * max_orders_per_side)
    /\ \A k \in 1..MaxArbId :
          (k \in DOMAIN arb_active_orders) ~>
             (k \notin DOMAIN arb_active_orders \/ arb_shutdown_requested)
    /\ (Cardinality(DOMAIN arb_active_orders) = 2 * max_orders_per_side) ~>
          \/ Cardinality(DOMAIN arb_active_orders) < 2 * max_orders_per_side
          \/ arb_shutdown_requested

====
